---- MODULE Spec2Model ----
(***************************************************************************)
(* A model of the synthetic dataset-construction subsystem of              *)
(* src/data/mnist_loader.py: get_ss_components, inject_uncertainty,        *)
(* produce_addition_set and the orchestration in load_mnist_addition and   *)
(* generate_data.  Python indices are kept 0-based: arrays are functions   *)
(* over 0..n-1.                                                            *)
(***************************************************************************)
EXTENDS Integers, Sequences, FiniteSets, TLC

VARIABLES
    component,      \* which function of the module is running
    pc,             \* position inside that function
    \* ---- get_ss_components
    xs,             \* images, flattened to feature vectors
    ys,             \* task labels
    cs,             \* concept vectors
    labeled_ratio,  \* <<numerator, denominator>>
    training,
    l_choice,       \* defaultdict(bool): sample index -> labeled?
    idx,            \* the loop variable idx of lines 40, 48 and 52
    nbrs,           \* result of nearest_neighbors(xs, l_choice, k=2)
    ss_out,         \* per sample: l, nbr_indices, nbr_concepts, nbr_weights
    \* ---- produce_addition_set
    y,                      \* the corpus labels; image i of X is entry i
    num_operands,
    selected_digits,        \* [nested, digits] as passed, then one list per operand
    even_concepts,
    even_labels,
    threshold_labels,       \* None or <<t>>
    dataset_size,
    sample_concepts,        \* None or <<a list of columns>>
    concept_transform,      \* None or <<the columns sample[:, selected_concepts] keeps>>
    operand_remaps,
    total_operand_samples,  \* per operand: the corpus entries kept
    total_operand_labels,   \* per operand: their labels
    sum_train_samples,      \* per sample: the operand images, concatenated
    sum_train_concepts,
    sum_train_labels,
    \* ---- inject_uncertainty
    ds,                     \* the loader passed in
    uncertain_width,        \* in grid units
    mixing,
    threshold,
    num_workers,
    batch_no,               \* the batch the loop of line 96 is at
    col_j,                  \* j of line 101
    row_i,                  \* i of line 116
    x_new,
    c_new,
    possible_options_pos,
    possible_options_neg,
    unc_xs,                 \* the list xs of line 92
    unc_cs,                 \* the list cs of line 94
    results,                \* None or <<the loader returned>>
    \* ---- generate_data and load_mnist_addition
    config,                 \* the config dict
    rerun,
    seed,
    gd_labeled_ratio,       \* the labeled_ratio argument of generate_data
    rng,                    \* the process's random generators: [numpy, python]
    draws,                  \* the randomized steps of the run so far
    files,                  \* the cache files of root_dir: name -> saved list
    returned,               \* per cache file: the selection of the latest earlier run
    calls,                  \* invocations so far on this cache directory
    gd_selected_digits,     \* selected_digits after lines 516-521
    num_concepts,
    concept_group_map,      \* the dict as <<[name, concepts], ...>> in insertion order
    n_tasks,                \* None while unbound, else <<n>>
    selection,              \* None or <<[indices, source]>>: the list loaded or drawn
    selected_concepts,      \* None or <<the columns concept_transform keeps>>
    test_dl,                \* None or <<loader>>
    val_dl,
    train_dl,
    imbalance,
    gd_error,               \* the exception that ended the run, or ""
    \* ---- the subsampling step in concurrent processes
    proc_pc,                \* per process: its position in lines 545-579
    proc_rerun,             \* per process: its rerun argument
    proc_selection,         \* per process: None or <<the selection it goes on with>>
    \* ---- utils.evaluate_expressions
    eval_config,            \* the config dict, as the list of its values
    soft,
    frames,                 \* the calls in progress: [pos, soft], outermost first
    eval_error              \* what was raised, or ""

ssVars == <<xs, ys, cs, labeled_ratio, training, l_choice, idx, nbrs, ss_out>>
addIn == <<y, num_operands, even_concepts, even_labels, threshold_labels,
           dataset_size, sample_concepts, concept_transform>>
addVars == <<addIn, selected_digits, operand_remaps, total_operand_samples,
             total_operand_labels, sum_train_samples, sum_train_concepts,
             sum_train_labels>>
uncVars == <<ds, uncertain_width, mixing, threshold, num_workers, batch_no, col_j, row_i,
             x_new, c_new, possible_options_pos, possible_options_neg,
             unc_xs, unc_cs, results>>
genIn == <<config, rerun, seed, gd_labeled_ratio>>
genVars == <<genIn, rng, draws, files, returned, calls, gd_selected_digits, num_concepts,
             concept_group_map, n_tasks, selection, selected_concepts, test_dl,
             val_dl, train_dl, imbalance, gd_error>>
genNoRng == <<genIn, draws, files, returned, calls, gd_selected_digits, num_concepts,
              concept_group_map, n_tasks, selection, selected_concepts, test_dl,
              val_dl, train_dl, imbalance, gd_error>>
genRest == <<rerun, seed, gd_labeled_ratio, rng, draws, returned, calls, gd_selected_digits,
             num_concepts, concept_group_map, n_tasks, selection,
             selected_concepts, test_dl, val_dl, train_dl, imbalance, gd_error>>
raceVars == <<proc_pc, proc_rerun, proc_selection>>
evalVars == <<eval_config, soft, frames, eval_error>>
vars == <<component, pc, ssVars, addVars, uncVars, genVars, raceVars, evalVars>>

----------------------------------------------------------------------------
(* Generic helpers *)

Range(f) == {f[i] : i \in DOMAIN f}

Min(a, b) == IF a < b THEN a ELSE b

\* Python floats are IEEE 754 doubles: a significand of 53 bits
SignificandBits == 53

\* A float >= 0 is [bits, exp]: bits holds the SignificandBits bits of the
\* significand, the leading 1 first, and the value is the sum of
\* bits[i] * 2^(exp - i + 1); zero has no bits.
FloatZero == [bits |-> <<>>, exp |-> 0]

\* the number of binary digits of n, 0 <= n < 2^30
BitLength(n) == CHOOSE k \in 0..30 : n < 2^k /\ (k = 0 \/ n >= 2^(k - 1))

\* the last width binary digits of n >= 0, the highest first
LowBits(n, width) == [i \in 1..width |-> (n \div 2^(width - i)) % 2]

\* the binary digits of n, the leading 1 first
IntBits(n) == IF n = 0 THEN <<>> ELSE LowBits(n, BitLength(n))

\* the number the binary digits b spell
RECURSIVE BitsValue(_)
BitsValue(b) ==
    IF Len(b) = 0 THEN 0
    ELSE IF Len(b) = 1 THEN b[1]
    ELSE LET half == Len(b) \div 2
         IN BitsValue(SubSeq(b, 1, half)) * 2^(Len(b) - half)
            + BitsValue(SubSeq(b, half + 1, Len(b)))

\* 2^e modulo q
RECURSIVE PowMod2(_, _)
PowMod2(e, q) ==
    IF e = 0 THEN 1 % q
    ELSE LET h == PowMod2(e \div 2, q)
         IN (((h * h) % q) * (IF e % 2 = 1 THEN 2 ELSE 1)) % q

\* the first count binary digits of r / q after the point (r < q), and
\* the remainder left
FracBits(r, q, count) ==
    [bits |-> [i \in 1..count |-> (2 * ((r * PowMod2(i - 1, q)) % q)) \div q],
     rem |-> (r * PowMod2(count, q)) % q]

LeadingZeros(b) ==
    IF \A i \in 1..Len(b) : b[i] = 0 THEN Len(b)
    ELSE (CHOOSE i \in 1..Len(b) : b[i] = 1 /\ \A k \in 1..(i - 1) : b[k] = 0) - 1

\* b + 1 on binary digits
Increment(b) ==
    IF \A i \in 1..Len(b) : b[i] = 1
    THEN <<1>> \o [i \in 1..Len(b) |-> 0]
    ELSE LET last == CHOOSE i \in 1..Len(b) :
                         b[i] = 0 /\ \A k \in (i + 1)..Len(b) : b[k] = 1
         IN [i \in 1..Len(b) |-> IF i < last THEN b[i]
                                 ELSE IF i = last THEN 1 ELSE 0]

\* round-to-nearest, ties to even: the float nearest the number whose
\* digits are stream (leading 1 first, the first digit worth 2^exp), plus,
\* when inexact, something below its last digit
RoundToFloat(stream, exp, inexact) ==
    LET padded == IF Len(stream) > SignificandBits THEN stream
                  ELSE stream \o [i \in 1..(SignificandBits + 1 - Len(stream)) |-> 0]
        kept == SubSeq(padded, 1, SignificandBits)
        half == padded[SignificandBits + 1] = 1
        more == inexact \/ \E i \in (SignificandBits + 2)..Len(padded) : padded[i] = 1
        up == half /\ (more \/ kept[SignificandBits] = 1)
        raised == Increment(kept)
    IN IF ~up THEN [bits |-> kept, exp |-> exp]
       ELSE IF Len(raised) > SignificandBits
       THEN [bits |-> SubSeq(raised, 1, SignificandBits), exp |-> exp + 1]
       ELSE [bits |-> raised, exp |-> exp]

\* the float a ratio <<numerator, denominator>> stands for: the double
\* nearest numerator / denominator (0.1 is <<1, 10>>)
FloatOfRatio(ratio) ==
    IF ratio[1] = 0 THEN FloatZero
    ELSE LET whole == IntBits(ratio[1] \div ratio[2])
             frac == FracBits(ratio[1] % ratio[2], ratio[2],
                              SignificandBits + 2 + BitLength(ratio[2]))
             stream == whole \o frac.bits
             z == LeadingZeros(stream)
         IN RoundToFloat(SubSeq(stream, z + 1, Len(stream)),
                         Len(whole) - 1 - z, frac.rem # 0)

\* the product is taken on groups of LimbBits binary digits
LimbBits == 13

\* group j of b, counted from the right, as a number
LimbValue(b, j) ==
    BitsValue(SubSeq(b, IF Len(b) - j * LimbBits + 1 > 1
                        THEN Len(b) - j * LimbBits + 1 ELSE 1,
                     Len(b) - (j - 1) * LimbBits))

\* what b * n carries into group j
RECURSIVE CarryInto(_, _, _)
CarryInto(b, n, j) ==
    IF j = 1 THEN 0
    ELSE (LimbValue(b, j - 1) * n + CarryInto(b, n, j - 1)) \div 2^LimbBits

\* the binary digits of b * n for binary digits b and 0 < n < 2^17
TimesInt(b, n) ==
    LET groups == (Len(b) + LimbBits - 1) \div LimbBits
        wide == IntBits(CarryInto(b, n, groups + 1))
                \o [i \in 1..(groups * LimbBits) |->
                      LowBits((LimbValue(b, groups - ((i - 1) \div LimbBits)) * n
                               + CarryInto(b, n, groups - ((i - 1) \div LimbBits)))
                              % 2^LimbBits, LimbBits)[((i - 1) % LimbBits) + 1]]
    IN SubSeq(wide, LeadingZeros(wide) + 1, Len(wide))

\* the float product f * n for an int n >= 0
FloatTimesInt(f, n) ==
    IF f.bits = <<>> \/ n = 0 THEN FloatZero
    ELSE LET product == TimesInt(f.bits, n)
         IN RoundToFloat(product, f.exp + Len(product) - Len(f.bits), FALSE)

\* the float product ratio * n of lines 42, 432, 549 and 568, where ratio
\* is the float a config or an argument holds and n is an int; the
\* products of the common ratios with small ints are computed once
TabulatedRatios == {<<0, 1>>, <<1, 10>>, <<1, 3>>, <<1, 2>>, <<1, 1>>}

TabulatedInts == 0..16

TabulatedProducts ==
    [ratio \in TabulatedRatios |->
        [n \in TabulatedInts |-> FloatTimesInt(FloatOfRatio(ratio), n)]]

RatioTimesInt(ratio, n) ==
    IF ratio \in TabulatedRatios /\ n \in TabulatedInts
    THEN TabulatedProducts[ratio][n]
    ELSE FloatTimesInt(FloatOfRatio(ratio), n)

\* int(f) for a float f >= 0 below 2^SignificandBits
FloatFloor(f) ==
    IF f.bits = <<>> \/ f.exp < 0 THEN 0
    ELSE BitsValue(SubSeq(f.bits, 1, f.exp + 1))

FloatHasFraction(f) ==
    /\ f.bits # <<>>
    /\ f.exp < 0 \/ \E i \in (f.exp + 2)..Len(f.bits) : f.bits[i] = 1

\* int(np.ceil(f))
FloatCeil(f) == FloatFloor(f) + (IF FloatHasFraction(f) THEN 1 ELSE 0)

\* k < f for an int k
IntBelowFloat(k, f) ==
    k < FloatFloor(f) \/ (k = FloatFloor(f) /\ FloatHasFraction(f))

EmptyFn == [i \in {} |-> FALSE]

\* Python's None; optional values are None or the one-element <<v>>
None == <<>>

\* the state of each function's variables while another function runs
EvalIdle == eval_config = <<>> /\ soft = FALSE /\ frames = <<>> /\ eval_error = ""

RaceIdle == proc_pc = <<>> /\ proc_rerun = <<>> /\ proc_selection = <<>>

\* the seed argument of generate_data
Seeds == {7, 42}

\* the default of the seed argument of get_ss_components (line 12); no call
\* passes another
SSSeed == 42

\* a generator nobody seeded
Unseeded == [seeded_with |-> None, seedings |-> 0]

SeedOne(generator, s) ==
    [seeded_with |-> <<s>>, seedings |-> generator.seedings + 1]

\* the random generators of a process that has not seeded them: numpy's
\* global one and that of Python's random module
ProcessStart == [numpy |-> Unseeded, python |-> Unseeded]

\* lines 324-325 (random.seed and np.random.seed) and line 88
\* (seed_everything): the state after seeding with s
Seeded(state, s) ==
    [numpy |-> SeedOne(state.numpy, s), python |-> SeedOne(state.python, s)]

\* line 35: random.seed(seed)
SeededPython(state, s) == [state EXCEPT !.python = SeedOne(@, s)]

\* a randomized step; all of them (np.random.permutation, np.random.choice,
\* train_test_split without random_state) draw from numpy's generator
Draw(step, state) ==
    [step |-> step, seeded_with |-> state.numpy.seeded_with,
     seedings |-> state.numpy.seedings]

\* the random state a caller of get_ss_components may leave
CallerStates == {ProcessStart} \cup {Seeded(ProcessStart, s) : s \in Seeds}

\* generate_data at rest, its random state apart
GenQuiet ==
    /\ rerun = FALSE /\ returned = <<>>
    /\ seed = 0 /\ gd_labeled_ratio = <<1, 1>> /\ draws = {}
    /\ calls = 0 /\ gd_selected_digits = <<>> /\ num_concepts = 0
    /\ concept_group_map = <<>> /\ n_tasks = <<>> /\ selection = <<>>
    /\ selected_concepts = <<>> /\ test_dl = <<>> /\ val_dl = <<>>
    /\ train_dl = <<>> /\ imbalance = <<>> /\ gd_error = ""

GenRestIdle == rng = <<>> /\ GenQuiet

GenIdle == config = <<>> /\ files = <<>> /\ GenRestIdle /\ RaceIdle

AddIdle ==
    /\ y = <<>> /\ num_operands = 0 /\ selected_digits = None
    /\ even_concepts = FALSE /\ even_labels = FALSE /\ threshold_labels = None
    /\ dataset_size = 0 /\ sample_concepts = None /\ concept_transform = None
    /\ operand_remaps = <<>> /\ total_operand_samples = <<>>
    /\ total_operand_labels = <<>> /\ sum_train_samples = <<>>
    /\ sum_train_concepts = <<>> /\ sum_train_labels = <<>>

\* the state of inject_uncertainty while another function runs
UncIdle ==
    /\ ds = None /\ uncertain_width = 0 /\ mixing = FALSE /\ threshold = FALSE
    /\ num_workers = 0
    /\ batch_no = 0 /\ col_j = 0 /\ row_i = 0
    /\ x_new = <<>> /\ c_new = <<>>
    /\ possible_options_pos = <<>> /\ possible_options_neg = <<>>
    /\ unc_xs = <<>> /\ unc_cs = <<>> /\ results = None

----------------------------------------------------------------------------
(* get_ss_components *)

\* bound: the largest number of samples of a bundle
MaxSamples == 4

\* the call site passes k=2 (line 57)
KNeighborsK == 2

\* the epsilon of line 28 is 1e-6 = 1 / EpsDen
EpsDen == 1000000

\* The samples a bundle is made of: a flattened image x, its task label y
\* and its concept vector c.  As in a synthesized bundle, equal images carry
\* equal labels and concepts.  All images have Euclidean norm 5, so cosine
\* distances are exact rationals with denominator 25.
SampleKinds ==
    {[x |-> <<3, 4>>, y |-> 0, c |-> <<0>>],
     [x |-> <<4, 3>>, y |-> 1, c |-> <<1>>],
     [x |-> <<0, 5>>, y |-> 1, c |-> <<0>>],
     [x |-> <<5, 0>>, y |-> 0, c |-> <<1>>]}

\* labeled_ratio values as <<numerator, denominator>>
Ratios == {<<0, 1>>, <<1, 3>>, <<1, 2>>, <<1, 1>>}

Dot(a, b) == a[1] * b[1] + a[2] * b[2]

Norm(a) == CHOOSE m \in 0..10 : m * m = Dot(a, a)

\* metric='cosine': 1 - a.b / (|a| |b|), as <<numerator, denominator>>
CosineDistance(a, b) ==
    <<Norm(a) * Norm(b) - Dot(a, b), Norm(a) * Norm(b)>>

\* d1 <= d2 for two rationals with positive denominators
RatLeq(d1, d2) == d1[1] * d2[2] <= d2[1] * d1[2]

\* class_count of lines 36-38
ClassCount(labels, class_label) ==
    Cardinality({i \in DOMAIN labels : labels[i] = class_label})

\* the comparison of line 42, labeled_count < labeled_ratio * class_count,
\* with labeled_ratio = ratio[1] / ratio[2]
UnderQuota_Leq(count, ratio, total) ==
    count <= FloatFloor(RatioTimesInt(ratio, total))

UnderQuota(count, ratio, total) ==
    IntBelowFloat(count, RatioTimesInt(ratio, total))

\* the loop of lines 40-46 from index i on
RECURSIVE StratifyLoop(_, _, _, _, _)
StratifyLoop(i, labels, ratio, labeled_count, choice) ==
    IF i = Cardinality(DOMAIN labels) THEN choice
    ELSE LET class_label == labels[i] IN
         IF UnderQuota(labeled_count[class_label], ratio,
                       ClassCount(labels, class_label))
         THEN StratifyLoop(i + 1, labels, ratio,
                  [labeled_count EXCEPT ![class_label] = @ + 1],
                  choice @@ (i :> TRUE))
         ELSE StratifyLoop(i + 1, labels, ratio, labeled_count,
                  choice @@ (i :> FALSE))

\* the stratified loop of lines 34-46 whatever training is
LChoice_AlwaysStratified(labels, ratio, train) ==
    StratifyLoop(0, labels, ratio, [k \in Range(labels) |-> 0], EmptyFn)

\* lines 33-49
LChoice(labels, ratio, train) ==
    IF train
    THEN StratifyLoop(0, labels, ratio, [k \in Range(labels) |-> 0], EmptyFn)
    ELSE [i \in DOMAIN labels |-> TRUE]

\* lines 19-23: the original indices of the labeled samples, in order;
\* position p of labeled_features holds features[LabeledIdxs(..)[p + 1]]
RECURSIVE LabeledFrom(_, _, _)
LabeledFrom(i, n, choice) ==
    IF i = n THEN <<>>
    ELSE (IF choice[i] THEN <<i>> ELSE <<>>) \o LabeledFrom(i + 1, n, choice)

LabeledIdxs(choice) == LabeledFrom(0, Cardinality(DOMAIN choice), choice)

\* lines 28-29 for one row of distances: 1 / (d + eps), divided by the row
\* sum.  With d_j = a_j / b_j and D_j = a_j * EpsDen + b_j the j-th inverse
\* is b_j * EpsDen / D_j, and the normalised weight is
\* (b_j * prod_{i # j} D_i) / sum_m (b_m * prod_{i # m} D_i).
RECURSIVE ProdExcept(_, _, _)
ProdExcept(D, j, i) ==
    IF i > Len(D) THEN 1
    ELSE (IF i = j THEN 1 ELSE D[i]) * ProdExcept(D, j, i + 1)

RECURSIVE SumSeq(_, _)
SumSeq(s, i) == IF i > Len(s) THEN 0 ELSE s[i] + SumSeq(s, i + 1)

\* the inverses of line 28 divided by the first of them, not by their sum
Weights_ByFirst(dists) ==
    LET D == [j \in 1..Len(dists) |-> dists[j][1] * EpsDen + dists[j][2]]
        num == [j \in 1..Len(dists) |-> dists[j][2] * ProdExcept(D, j, 1)]
    IN [j \in 1..Len(dists) |-> <<num[j], num[1]>>]

Weights(dists) ==
    LET D == [j \in 1..Len(dists) |-> dists[j][1] * EpsDen + dists[j][2]]
        num == [j \in 1..Len(dists) |-> dists[j][2] * ProdExcept(D, j, 1)]
    IN [j \in 1..Len(dists) |-> <<num[j], SumSeq(num, 1)>>]

\* lines 24-26 for one query: every answer kneighbors may give, the k
\* positions (in labeled_features) of the nearest rows in order of
\* distance; rows at equal distance may come in any order
InjectiveSeqs(S, k) ==
    {s \in [1..k -> S] : \A a, b \in 1..k : a # b => s[a] # s[b]}

KNeighborsOf(query, labeled_features, k) ==
    LET m == Len(labeled_features)
        d(p) == CosineDistance(query, labeled_features[p + 1])
    IN {s \in InjectiveSeqs(0..(m - 1), k) :
          /\ \A a \in 1..(k - 1) : RatLeq(d(s[a]), d(s[a + 1]))
          /\ \A p \in 0..(m - 1) :
                p \notin Range(s) => RatLeq(d(s[k]), d(p))}

\* line 31: one record per sample
NbrRecord(query, labeled_features, s) ==
    [indices |-> s,
     weights |-> Weights([j \in 1..Len(s) |->
                    CosineDistance(query, labeled_features[s[j] + 1])])]

\* every list nearest_neighbors may return (lines 16-31), as a sequence
\* whose element i + 1 is the record of sample i
RECURSIVE NearestFrom(_, _, _, _)
NearestFrom(i, features, labeled_features, k) ==
    IF i = Cardinality(DOMAIN features) THEN {<<>>}
    ELSE {<<NbrRecord(features[i], labeled_features, s)>> \o rest :
            s \in KNeighborsOf(features[i], labeled_features, k),
            rest \in NearestFrom(i + 1, features, labeled_features, k)}

LabeledFeatures(features, choice) ==
    [p \in 1..Len(LabeledIdxs(choice)) |-> features[LabeledIdxs(choice)[p]]]

NearestNeighbors(features, choice, k) ==
    NearestFrom(0, features, LabeledFeatures(features, choice), k)

\* lines 61-72: what one iteration of the gather loop appends, reading
\* l_choice and nbrs at position at
GatherAt(at, choice, nb, concepts) ==
    LET nbr_info == nb[at + 1]
        nbr_indices == nbr_info.indices
    IN [l |-> choice[at],
        nbr_indices |-> nbr_indices,
        nbr_concepts |-> [j \in 1..Len(nbr_indices) |-> concepts[nbr_indices[j]]],
        nbr_weights |-> nbr_info.weights]

SSIdle ==
    /\ xs = <<>> /\ ys = <<>> /\ cs = <<>>
    /\ labeled_ratio = <<1, 1>> /\ training = FALSE
    /\ l_choice = EmptyFn /\ idx = -1 /\ nbrs = <<>> /\ ss_out = <<>>

\* the three splits load_mnist_addition builds
Splits == {"test", "val", "train"}

\* lines 381-383, 451-452 and 490-491: the labeled_ratio and training that
\* load_mnist_addition gives get_ss_components for a split, requested being
\* its own labeled_ratio argument; training is left at its default (line
\* 12) for test and val
SSCallOf(split, requested) ==
    IF split = "train"
    THEN [labeled_ratio |-> requested, training |-> TRUE]
    ELSE [labeled_ratio |-> <<1, 1>>, training |-> FALSE]

\* no image occurs more than twice in the bundle
FewDuplicates(bundle) ==
    \A i, j, k \in DOMAIN bundle :
        (i < j /\ j < k) => ~(bundle[i] = bundle[j] /\ bundle[j] = bundle[k])

\* a call get_ss_components(xs, ys, cs, labeled_ratio, training)
SSInit ==
    /\ component = "get_ss_components"
    /\ pc = "ss_start"
    /\ \E n \in 1..MaxSamples :
          \E bundle \in [0..(n - 1) -> SampleKinds] :
             /\ FewDuplicates(bundle)
             /\ xs = [i \in 0..(n - 1) |-> bundle[i].x]
             /\ ys = [i \in 0..(n - 1) |-> bundle[i].y]
             /\ cs = [i \in 0..(n - 1) |-> bundle[i].c]
    /\ training \in BOOLEAN
    /\ labeled_ratio \in Ratios
    /\ l_choice = EmptyFn /\ idx = -1 /\ nbrs = <<>> /\ ss_out = <<>>
    /\ rng \in CallerStates
    /\ config = <<>> /\ files = <<>> /\ GenQuiet /\ RaceIdle
    /\ AddIdle /\ UncIdle /\ EvalIdle

NumSamples == Cardinality(DOMAIN ys)

\* lines 33-49; with training line 35 seeds Python's generator; both loops
\* leave idx at the last index
SSStratify ==
    /\ pc = "ss_start"
    /\ rng' = IF training THEN SeededPython(rng, SSSeed) ELSE rng
    /\ l_choice' = LChoice(ys, labeled_ratio, training)
    /\ idx' = NumSamples - 1
    /\ pc' = "ss_count"
    /\ UNCHANGED <<component, xs, ys, cs, labeled_ratio, training, nbrs, ss_out>>
    /\ UNCHANGED <<addVars, uncVars, genNoRng, raceVars, evalVars>>

\* lines 51-55: the counting loop reuses idx
SSCountLabeled ==
    /\ pc = "ss_count"
    /\ idx' = Cardinality(DOMAIN l_choice) - 1
    /\ pc' = "ss_knn"
    /\ UNCHANGED <<component, xs, ys, cs, labeled_ratio, training, l_choice, nbrs, ss_out>>
    /\ UNCHANGED <<addVars, uncVars, genVars, raceVars, evalVars>>

\* line 57, when the fit and the query succeed
SSNearestNeighbors ==
    /\ pc = "ss_knn"
    /\ Len(LabeledIdxs(l_choice)) >= KNeighborsK
    /\ nbrs' \in NearestNeighbors(xs, l_choice, KNeighborsK)
    /\ pc' = "ss_gather"
    /\ UNCHANGED <<component, xs, ys, cs, labeled_ratio, training, l_choice, idx, ss_out>>
    /\ UNCHANGED <<addVars, uncVars, genVars, raceVars, evalVars>>

\* line 57, with fewer labeled rows than neighbours asked for: sklearn raises
SSNearestNeighborsRaises ==
    /\ pc = "ss_knn"
    /\ Len(LabeledIdxs(l_choice)) < KNeighborsK
    /\ pc' = "ss_raised"
    /\ UNCHANGED <<component, ssVars, addVars, uncVars, genVars, raceVars, evalVars>>

\* lines 59-76: the loop variable is i, the body reads position idx
SSGather ==
    /\ pc = "ss_gather"
    /\ ss_out' = [i \in 0..(NumSamples - 1) |-> GatherAt(idx, l_choice, nbrs, cs)]
    /\ pc' = "ss_done"
    /\ UNCHANGED <<component, xs, ys, cs, labeled_ratio, training, l_choice, idx, nbrs>>
    /\ UNCHANGED <<addVars, uncVars, genVars, raceVars, evalVars>>

SSNext ==
    \/ SSStratify
    \/ SSCountLabeled
    \/ SSNearestNeighbors
    \/ SSNearestNeighborsRaises
    \/ SSGather

SpecSS == SSInit /\ [][SSNext]_vars

----------------------------------------------------------------------------
(* Claims about get_ss_components *)

LabeledInClass(k) ==
    Cardinality({i \in DOMAIN l_choice : ys[i] = k /\ l_choice[i]})

\* C1: in a training split the returned labeled-flag tensor marks sample i
\* as labeled exactly when the stratified selection chose sample i.
C1_FlagsFollowSelection ==
    (pc = "ss_done" /\ training) =>
        \A i \in DOMAIN ss_out : ss_out[i].l = l_choice[i]

\* C2: the neighbor record returned at position i is the result of the kNN
\* query made for sample i itself.
C2_RecordIsOwnQuery ==
    pc = "ss_done" =>
        \A i \in DOMAIN ss_out :
            /\ ss_out[i].nbr_indices = nbrs[i + 1].indices
            /\ ss_out[i].nbr_weights = nbrs[i + 1].weights

\* C3: when some samples are unlabeled, every gathered neighbor concept
\* vector is that of the labeled sample the kNN index matched, i.e. the
\* subset position is mapped back to the full array before the gather.
C3_NeighborMappedBack ==
    (pc = "ss_done" /\ \E i \in DOMAIN l_choice : ~l_choice[i]) =>
        \A i \in DOMAIN ss_out :
            \A j \in 1..Len(ss_out[i].nbr_indices) :
                ss_out[i].nbr_concepts[j] =
                    cs[LabeledIdxs(l_choice)[ss_out[i].nbr_indices[j] + 1]]

\* C21: a call with training=False returns a labeled flag that is true for
\* every sample, whatever labeled_ratio is; load_mnist_addition makes that
\* call, with labeled_ratio 1, for the test and validation splits, and
\* passes the requested ratio and training=True for the training split only
C21_EvalSplitsFullyLabeled ==
    /\ (pc = "ss_done" /\ ~training) => \A i \in DOMAIN ss_out : ss_out[i].l
    /\ \A split \in Splits, requested \in Ratios :
          /\ SSCallOf(split, requested).training <=> split = "train"
          /\ SSCallOf(split, requested).labeled_ratio =
                IF split = "train" THEN requested ELSE <<1, 1>>
    /\ (pc = "ss_done"
           /\ \E split \in Splits \ {"train"}, requested \in Ratios :
                 SSCallOf(split, requested) =
                    [labeled_ratio |-> labeled_ratio, training |-> training])
          => \A i \in DOMAIN ss_out : ss_out[i].l

\* a call with training=False and a partial ratio returned a bundle of
\* several samples
C21_Witness ==
    /\ pc = "ss_done" /\ ~training
    /\ labeled_ratio = <<1, 3>>
    /\ NumSamples >= 3

\* (d + 1e-6) * b * EpsDen for the cosine distance d = a / b between a
\* query and the labeled row at position p
InverseDenominator(query, p) ==
    LET d == CosineDistance(query, LabeledFeatures(xs, l_choice)[p + 1])
    IN d[1] * EpsDen + d[2]

\* weights w (fractions over one denominator) are in the proportion of
\* 1 / (d + 1e-6) for the distances d from query to the rows at positions
RowNormalised(w, query, positions) ==
    /\ \A j \in 1..Len(w) : w[j][1] > 0 /\ w[j][2] > 0
    /\ \A j, m \in 1..Len(w) : w[j][2] = w[m][2]
    /\ SumSeq([j \in 1..Len(w) |-> w[j][1]], 1) = w[1][2]
    /\ \A j, m \in 1..Len(w) :
          j # m =>
              /\ w[j][1] % InverseDenominator(query, positions[m]) = 0
              /\ w[m][1] % InverseDenominator(query, positions[j]) = 0
              /\ w[j][1] \div InverseDenominator(query, positions[m]) =
                    w[m][1] \div InverseDenominator(query, positions[j])

\* C16: the k weights of every returned sample are positive and sum to 1,
\* and they are the weights of one record of nearest_neighbors, which are
\* the values 1 / (distance + 1e-6) of the record's query to its k neighbors
\* divided by their sum
C16_WeightsNormalised ==
    pc = "ss_done" =>
        /\ \A q \in 0..(NumSamples - 1) :
              /\ Len(nbrs[q + 1].weights) = KNeighborsK
              /\ RowNormalised(nbrs[q + 1].weights, xs[q], nbrs[q + 1].indices)
        /\ \A i \in DOMAIN ss_out :
              /\ Len(ss_out[i].nbr_weights) = KNeighborsK
              /\ \A j \in 1..KNeighborsK :
                    ss_out[i].nbr_weights[j][1] > 0 /\ ss_out[i].nbr_weights[j][2] > 0
              /\ SumSeq([j \in 1..KNeighborsK |-> ss_out[i].nbr_weights[j][1]], 1) =
                    ss_out[i].nbr_weights[1][2]
              /\ \E q \in 0..(NumSamples - 1) :
                    /\ ss_out[i].nbr_weights = nbrs[q + 1].weights
                    /\ ss_out[i].nbr_indices = nbrs[q + 1].indices

\* a returned bundle whose weights are unequal: the nearer neighbor weighs
\* more
C16_Witness ==
    /\ pc = "ss_done"
    /\ \E i \in DOMAIN ss_out :
          ss_out[i].nbr_weights[1][1] > ss_out[i].nbr_weights[2][1]

\* C6 as stated: in a training split with ratio r the stratified selection
\* holds exactly min(n_k, floor(r * n_k)) samples of every class k, r * n_k
\* being the float product of line 42.
C6_FloorPerClass ==
    (training /\ pc # "ss_start") =>
        \A k \in Range(ys) :
            LabeledInClass(k) =
                Min(ClassCount(ys, k),
                    FloatFloor(RatioTimesInt(labeled_ratio, ClassCount(ys, k))))

\* C6 amended: in a training split with ratio r in [0,1] the stratified
\* selection holds exactly min(n_k, ceil(r * n_k)) samples of every class k,
\* r * n_k being the float product of line 42.
C6_CeilPerClass ==
    (training /\ pc # "ss_start") =>
        \A k \in Range(ys) :
            LabeledInClass(k) =
                Min(ClassCount(ys, k),
                    FloatCeil(RatioTimesInt(labeled_ratio, ClassCount(ys, k))))

\* a training split was stratified, and for some class r * n_k is not an
\* integer
C6_Witness ==
    /\ training /\ pc = "ss_count"
    /\ \E k \in Range(ys) :
          /\ FloatHasFraction(RatioTimesInt(labeled_ratio, ClassCount(ys, k)))
          /\ LabeledInClass(k) >= 2
          /\ LabeledInClass(k) < ClassCount(ys, k)

----------------------------------------------------------------------------
(* produce_addition_set *)

\* bound: the largest dataset_size
MaxDatasetSize == 2

\* the labels of the image corpora the sets are synthesized from
Corpora == {<<0, 1, 2, 3>>, <<1, 1, 0, 2>>, <<0, 2, 0>>}

\* selected_digits as passed, with num_operands: a flat list of digits
\* (nested = FALSE) or one list per operand
OperandSpecs ==
    {[nested |-> FALSE, digits |-> <<0, 1>>, num_operands |-> 2],
     [nested |-> TRUE, digits |-> <<<<0, 1>>, <<2, 3>>>>, num_operands |-> 2],
     [nested |-> TRUE, digits |-> <<<<0, 1, 2>>, <<1, 3>>>>, num_operands |-> 2],
     [nested |-> FALSE, digits |-> <<0, 1, 2, 3>>, num_operands |-> 1],
     [nested |-> TRUE, digits |-> <<<<0, 1>>>>, num_operands |-> 2]}

ThresholdChoices == {None, <<0>>, <<2>>}

\* sample_concepts and concept_transform, as column lists
PostChoices ==
    {[sample_concepts |-> None, concept_transform |-> None],
     [sample_concepts |-> <<<<0>>>>, concept_transform |-> None],
     [sample_concepts |-> None, concept_transform |-> <<<<1, 0>>>>]}

\* lines 185-186: a flat list is replicated once per operand
NormalizeDigits(spec, n) ==
    IF spec.nested THEN spec.digits ELSE [o \in 1..n |-> spec.digits]

\* an operand specification that is never found to disagree
DigitsLengthMismatch_Never(spec, n) == FALSE

\* lines 187-191 and 520-521
DigitsLengthMismatch(spec, n) == spec.nested /\ Len(spec.digits) # n

\* lines 193-196: dict((dig, idx) for (idx, dig) in enumerate(operand_digits));
\* a digit listed twice keeps its last index
Remap(operand_digits) ==
    [dig \in Range(operand_digits) |->
        CHOOSE i \in 0..(Len(operand_digits) - 1) :
            /\ operand_digits[i + 1] = dig
            /\ \A j \in 0..(Len(operand_digits) - 1) :
                  operand_digits[j + 1] = dig => j <= i]

\* every corpus index, allowed digit or not
FilterIdxs_All(labels, allowed_digits, i) == [k \in 1..Len(labels) |-> k - 1]

\* lines 200-203: the corpus indices whose digit is allowed, in corpus order
RECURSIVE FilterIdxs(_, _, _)
FilterIdxs(labels, allowed_digits, i) ==
    IF i > Len(labels) THEN <<>>
    ELSE (IF labels[i] \in Range(allowed_digits) THEN <<i - 1>> ELSE <<>>)
         \o FilterIdxs(labels, allowed_digits, i + 1)

MaxOf(S) == CHOOSE m \in S : \A v \in S : v <= m

\* a one-hot row with the 1 moved one place on
OneHot_Shifted(i, num_classes) ==
    [c \in 1..num_classes |-> IF c = ((i + 1) % num_classes) + 1 THEN 1 ELSE 0]

OneHot(i, num_classes) == [c \in 1..num_classes |-> IF c = i + 1 THEN 1 ELSE 0]

\* lines 224-246: the concept values one operand contributes
OperandConcepts(operand_digits, remap, label, even) ==
    IF Len(operand_digits) > 2
    THEN IF even
         THEN <<IF remap[label] % 2 = 0 THEN 1 ELSE 0>>
         ELSE OneHot(remap[label], Len(operand_digits))
    ELSE IF even
         THEN <<IF label % 2 = 0 THEN 1 ELSE 0>>
         ELSE <<IF label = MaxOf(Range(operand_digits)) THEN 1 ELSE 0>>

RECURSIVE Concat(_, _)
Concat(seqs, i) == IF i > Len(seqs) THEN <<>> ELSE seqs[i] \o Concat(seqs, i + 1)

\* lines 213 and 247: sample_label accumulates the raw labels drawn
SampleLabel_Last(labels_drawn) == labels_drawn[Len(labels_drawn)]

SampleLabel(labels_drawn) == SumSeq(labels_drawn, 1)

\* line 256
ParityLabel_Odd(sample_label) == sample_label % 2

ParityLabel(sample_label) == IF sample_label % 2 = 0 THEN 1 ELSE 0

\* line 258
ThresholdLabel(sample_label, bound) ==
    IF sample_label >= bound THEN 1 ELSE 0

\* lines 255-260: what one sample appends to sum_train_labels
LabelsAppended_Independent(sample_label, even, bound) ==
    (IF even THEN <<ParityLabel(sample_label)>> ELSE <<>>)
    \o (IF bound # None
        THEN <<ThresholdLabel(sample_label, bound[1])>> ELSE <<>>)
    \o (IF ~even /\ bound = None THEN <<sample_label>> ELSE <<>>)

LabelsAppended(sample_label, even, bound) ==
    IF even THEN <<ParityLabel(sample_label)>>
    ELSE IF bound # None THEN <<ThresholdLabel(sample_label, bound[1])>>
    ELSE <<sample_label>>

\* sample[:, columns]
SelectColumns(row, columns) == [j \in 1..Len(columns) |-> row[columns[j] + 1]]

ColumnsInRange(rows, columns) ==
    \A r \in 1..Len(rows) : \A j \in 1..Len(columns) : columns[j] < Len(rows[r])

\* a call produce_addition_set(X, y, dataset_size, num_operands, ...)
AddInit ==
    /\ component = "produce_addition_set"
    /\ pc = "add_start"
    /\ y \in Corpora
    /\ \E spec \in OperandSpecs :
          /\ selected_digits = [nested |-> spec.nested, digits |-> spec.digits]
          /\ num_operands = spec.num_operands
    /\ even_concepts \in BOOLEAN
    /\ even_labels \in BOOLEAN
    /\ threshold_labels \in ThresholdChoices
    /\ dataset_size \in 1..MaxDatasetSize
    /\ \E post \in PostChoices :
          /\ sample_concepts = post.sample_concepts
          /\ concept_transform = post.concept_transform
    /\ operand_remaps = <<>> /\ total_operand_samples = <<>>
    /\ total_operand_labels = <<>> /\ sum_train_samples = <<>>
    /\ sum_train_concepts = <<>> /\ sum_train_labels = <<>>
    /\ SSIdle /\ UncIdle /\ GenIdle /\ EvalIdle

\* lines 187-191: the operand specification disagrees with num_operands
AddRaiseValueError ==
    /\ pc = "add_start"
    /\ DigitsLengthMismatch(selected_digits, num_operands)
    /\ pc' = "add_raised"
    /\ UNCHANGED <<component, ssVars, addVars, uncVars, genVars, raceVars, evalVars>>

\* lines 182-205: the remap tables and the per-operand subsets
AddPartition ==
    /\ pc = "add_start"
    /\ ~DigitsLengthMismatch(selected_digits, num_operands)
    /\ LET digits == NormalizeDigits(selected_digits, num_operands) IN
          /\ selected_digits' = digits
          /\ operand_remaps' = [o \in 1..Len(digits) |-> Remap(digits[o])]
          /\ total_operand_samples' =
                [o \in 1..Len(digits) |-> FilterIdxs(y, digits[o], 1)]
          /\ total_operand_labels' =
                [o \in 1..Len(digits) |->
                    LET filter_idxs == FilterIdxs(y, digits[o], 1)
                    IN [p \in 1..Len(filter_idxs) |-> y[filter_idxs[p] + 1]]]
    /\ pc' = "add_loop"
    /\ UNCHANGED <<uncVars, genVars, raceVars, evalVars>>
    /\ UNCHANGED <<component, ssVars, addIn, sum_train_samples,
                   sum_train_concepts, sum_train_labels>>

\* lines 210-261: one iteration of the sample loop; img_idx[o] is the draw
\* np.random.choice makes for operand o
AddSynthesize ==
    /\ pc = "add_loop"
    /\ Len(sum_train_samples) < dataset_size
    /\ \A o \in 1..Len(selected_digits) : Len(total_operand_samples[o]) > 0
    /\ \E img_idx \in [1..Len(selected_digits) -> 0..(Len(y) - 1)] :
          /\ \A o \in 1..Len(selected_digits) :
                img_idx[o] < Len(total_operand_samples[o])
          /\ LET selected == [o \in 1..Len(selected_digits) |->
                                total_operand_labels[o][img_idx[o] + 1]]
                 operands == [o \in 1..Len(selected_digits) |->
                                total_operand_samples[o][img_idx[o] + 1]]
                 concepts == [o \in 1..Len(selected_digits) |->
                                OperandConcepts(selected_digits[o], operand_remaps[o],
                                                selected[o], even_concepts)]
             IN /\ sum_train_samples' = Append(sum_train_samples, operands)
                /\ sum_train_concepts' =
                      Append(sum_train_concepts, Concat(concepts, 1))
                /\ sum_train_labels' = sum_train_labels \o
                      LabelsAppended(SampleLabel(selected), even_labels,
                                     threshold_labels)
    /\ UNCHANGED <<uncVars, genVars, raceVars, evalVars>>
    /\ UNCHANGED <<component, pc, ssVars, addIn, selected_digits, operand_remaps,
                   total_operand_samples, total_operand_labels>>

\* line 221 with an empty subset: np.random.choice(0) raises
AddChoiceRaises ==
    /\ pc = "add_loop"
    /\ Len(sum_train_samples) < dataset_size
    /\ \E o \in 1..Len(selected_digits) : Len(total_operand_samples[o]) = 0
    /\ pc' = "add_raised"
    /\ UNCHANGED <<component, ssVars, addVars, uncVars, genVars, raceVars, evalVars>>

\* lines 274-277 on the synthesized concepts
PostProcess(concepts, columns, transform) ==
    LET sampled == IF columns = None THEN concepts
                   ELSE [r \in 1..Len(concepts) |->
                            SelectColumns(concepts[r], columns[1])]
    IN IF transform = None THEN sampled
       ELSE [r \in 1..Len(sampled) |-> SelectColumns(sampled[r], transform[1])]

PostProcessInRange(concepts, columns, transform) ==
    /\ columns # None => ColumnsInRange(concepts, columns[1])
    /\ transform # None =>
          ColumnsInRange(PostProcess(concepts, columns, None), transform[1])

\* lines 262-290: the column selection and the concept transform; the pixel
\* steps (transpose, /255, noise) leave labels and concepts alone
AddFinish ==
    /\ pc = "add_loop"
    /\ Len(sum_train_samples) = dataset_size
    /\ PostProcessInRange(sum_train_concepts, sample_concepts, concept_transform)
    /\ sum_train_concepts' =
          PostProcess(sum_train_concepts, sample_concepts, concept_transform)
    /\ pc' = "add_done"
    /\ UNCHANGED <<uncVars, genVars, raceVars, evalVars>>
    /\ UNCHANGED <<component, ssVars, addIn, selected_digits, operand_remaps,
                   total_operand_samples, total_operand_labels,
                   sum_train_samples, sum_train_labels>>

\* lines 274-277 with a column past the concept width: IndexError
AddIndexError ==
    /\ pc = "add_loop"
    /\ Len(sum_train_samples) = dataset_size
    /\ ~PostProcessInRange(sum_train_concepts, sample_concepts, concept_transform)
    /\ pc' = "add_raised"
    /\ UNCHANGED <<component, ssVars, addVars, uncVars, genVars, raceVars, evalVars>>

AddNext ==
    \/ AddRaiseValueError
    \/ AddPartition
    \/ AddSynthesize
    \/ AddChoiceRaises
    \/ AddFinish
    \/ AddIndexError

SpecAdd == AddInit /\ [][AddNext]_vars

----------------------------------------------------------------------------
(* Claims about produce_addition_set *)

\* the sum of the corpus labels of the operand images of sample i
RawSum(i) ==
    SumSeq([o \in 1..Len(sum_train_samples[i]) |-> y[sum_train_samples[i][o] + 1]], 1)

Synthesized == 1..Len(sum_train_samples)

\* C5 as stated: in parity mode the task label of every sample equals
\* task_label_raw % 2.
C5_ParityIsRawMod2 ==
    even_labels =>
        /\ Len(sum_train_labels) = Len(sum_train_samples)
        /\ \A i \in Synthesized : sum_train_labels[i] = RawSum(i) % 2

\* C5 amended: in parity (even_labels) mode the task label of every sample
\* is 1 when task_label_raw is even and 0 when it is odd.
C5_ParityIsEvenFlag ==
    even_labels =>
        /\ Len(sum_train_labels) = Len(sum_train_samples)
        /\ \A i \in Synthesized :
              sum_train_labels[i] = (IF RawSum(i) % 2 = 0 THEN 1 ELSE 0)

\* a finished parity-mode set holding a sample with an odd raw sum and one
\* with an even raw sum
C5_Witness ==
    /\ pc = "add_done" /\ even_labels
    /\ \E i, j \in Synthesized :
          /\ RawSum(i) % 2 = 1 /\ sum_train_labels[i] = 0
          /\ RawSum(j) % 2 = 0 /\ sum_train_labels[j] = 1

\* C7: in raw-sum mode the task label of every sample is the sum of the raw
\* digit labels of the operands drawn for it; with 2 operands restricted to
\* digits {0,1} every task label is in {0,1,2}.
C7_RawSumLabel ==
    (~even_labels /\ threshold_labels = None) =>
        /\ Len(sum_train_labels) = Len(sum_train_samples)
        /\ \A i \in Synthesized :
              /\ sum_train_labels[i] = RawSum(i)
              /\ (/\ Len(selected_digits) = 2
                  /\ \A o \in 1..2 : Range(selected_digits[o]) \subseteq {0, 1})
                 => sum_train_labels[i] \in {0, 1, 2}

\* a finished raw-sum set over two {0,1} operands with the labels 2 and 1
C7_Witness ==
    /\ pc = "add_done" /\ ~even_labels /\ threshold_labels = None
    /\ selected_digits = <<<<0, 1>>, <<0, 1>>>>
    /\ \E i, j \in Synthesized :
          /\ sum_train_labels[i] = 2 /\ RawSum(i) = 2
          /\ sum_train_labels[j] = 1

\* C8: in threshold mode the task label is 1 when the raw operand sum is
\* >= threshold_labels and 0 otherwise; for every combination of the two
\* mode settings each sample gets exactly one label, that of one mode
\* (parity when even_labels is on, whatever threshold_labels is).
C8_ThresholdAndExclusive ==
    /\ Len(sum_train_labels) = Len(sum_train_samples)
    /\ \A i \in Synthesized :
          /\ (~even_labels /\ threshold_labels # None) =>
                sum_train_labels[i] =
                    (IF RawSum(i) >= threshold_labels[1] THEN 1 ELSE 0)
          /\ (even_labels /\ threshold_labels # None) =>
                sum_train_labels[i] = (IF RawSum(i) % 2 = 0 THEN 1 ELSE 0)

\* a finished threshold-mode set with a sample at or above the threshold
\* and one below it
C8_Witness ==
    /\ pc = "add_done" /\ ~even_labels /\ threshold_labels = <<2>>
    /\ \E i, j \in Synthesized :
          /\ RawSum(i) > 2 /\ sum_train_labels[i] = 1
          /\ RawSum(j) = 1 /\ sum_train_labels[j] = 0

\* width(operand) of the claim, for the operand lists as normalised
OperandWidth(o) ==
    IF Len(selected_digits[o]) <= 2 \/ even_concepts THEN 1
    ELSE Len(selected_digits[o])

\* the columns before the block of operand o
BlockOffset(o) == SumSeq([p \in 1..(o - 1) |-> OperandWidth(p)], 1)

\* the digit drawn for operand o of sample i
DrawnDigit(i, o) == y[sum_train_samples[i][o] + 1]

Partitioned == pc \in {"add_loop", "add_done"}

\* C13: without column subselection or transform every concept vector is as
\* wide as the sum of the operand widths, and a one-hot operand's block
\* holds exactly one 1, at the position of the drawn digit in the operand's
\* list of allowed digits
C13_ConceptWidth ==
    (Partitioned /\ sample_concepts = None /\ concept_transform = None) =>
        \A i \in Synthesized :
            /\ Len(sum_train_concepts[i]) =
                  SumSeq([o \in 1..Len(selected_digits) |-> OperandWidth(o)], 1)
            /\ \A o \in 1..Len(selected_digits) :
                  (Len(selected_digits[o]) > 2 /\ ~even_concepts) =>
                      \A k \in 1..OperandWidth(o) :
                          sum_train_concepts[i][BlockOffset(o) + k] =
                              IF selected_digits[o][k] = DrawnDigit(i, o) THEN 1 ELSE 0

\* a finished run with a binary operand after a one-hot operand whose drawn
\* digit is the last of its list
C13_Witness ==
    /\ pc = "add_done" /\ sample_concepts = None /\ concept_transform = None
    /\ ~even_concepts /\ Len(selected_digits) = 2
    /\ Len(selected_digits[1]) = 3 /\ Len(selected_digits[2]) = 2
    /\ \E i \in Synthesized :
          /\ DrawnDigit(i, 1) = selected_digits[1][3]
          /\ Len(sum_train_concepts[i]) = 4
          /\ sum_train_concepts[i][3] = 1

\* C14: the subset of every operand holds exactly the corpus entries whose
\* label is in the operand's allowed digits, once each and in corpus order,
\* with their labels, so every operand drawn has a digit of its own set
C14_PartitionExact ==
    Partitioned =>
        /\ \A o \in 1..Len(selected_digits) :
              /\ Range(total_operand_samples[o]) =
                    {e \in 0..(Len(y) - 1) : y[e + 1] \in Range(selected_digits[o])}
              /\ \A p, q \in 1..Len(total_operand_samples[o]) :
                    p < q => total_operand_samples[o][p] < total_operand_samples[o][q]
              /\ Len(total_operand_labels[o]) = Len(total_operand_samples[o])
              /\ \A p \in 1..Len(total_operand_samples[o]) :
                    total_operand_labels[o][p] = y[total_operand_samples[o][p] + 1]
        /\ \A i \in Synthesized : \A o \in 1..Len(selected_digits) :
              DrawnDigit(i, o) \in Range(selected_digits[o])

\* a sample was drawn from two different subsets, each leaving out a corpus
\* entry the other holds
C14_Witness ==
    /\ Partitioned /\ Len(selected_digits) = 2
    /\ \E e \in Range(total_operand_samples[1]) : e \notin Range(total_operand_samples[2])
    /\ \E e \in Range(total_operand_samples[2]) : e \notin Range(total_operand_samples[1])
    /\ Synthesized # {}

----------------------------------------------------------------------------
(* inject_uncertainty *)

\* bound: concept values and widths are multiples of 1 / Grid; the grid
\* value v stands for v / Grid
Grid == 4

\* the number of fields `for x, y, c in ds` unpacks (line 96)
UnpackedFields == 3

\* A loader: the number of tensors of its TensorDataset, the concept columns
\* of every operand (concept_groups, operand o being channel o of x) and its
\* batches.
\* x holds one pixel per sample and channel, as <<numerator, denominator>>;
\* c holds the concept values in grid units (0 or Grid).
Px(v) == <<v, 1>>

UncLoaders ==
    {[fields |-> 3, groups |-> <<<<0>>, <<1>>>>,
      batches |-> <<[x |-> <<<<Px(1), Px(2)>>, <<Px(3), Px(4)>>>>,
                     c |-> <<<<Grid, 0>>, <<0, Grid>>>>]>>],
     [fields |-> 3, groups |-> <<<<0>>, <<1>>>>,
      batches |-> <<[x |-> <<<<Px(1), Px(2)>>, <<Px(3), Px(4)>>>>,
                     c |-> <<<<Grid, Grid>>, <<0, Grid>>>>]>>],
     [fields |-> 3, groups |-> <<<<0>>, <<1>>, <<2>>>>,
      batches |-> <<[x |-> <<<<Px(1), Px(2), Px(3)>>, <<Px(4), Px(5), Px(6)>>>>,
                     c |-> <<<<Grid, 0, Grid>>, <<0, Grid, 0>>>>]>>],
     [fields |-> 3, groups |-> <<<<0>>, <<1>>>>,
      batches |-> <<[x |-> <<<<Px(1), Px(2)>>>>, c |-> <<<<Grid, 0>>>>],
                    [x |-> <<<<Px(3), Px(4)>>>>, c |-> <<<<0, Grid>>>>]>>],
     [fields |-> 3, groups |-> <<<<0, 1>>, <<2>>>>,
      batches |-> <<[x |-> <<<<Px(1), Px(2)>>, <<Px(3), Px(4)>>>>,
                     c |-> <<<<Grid, 0, 0>>, <<0, Grid, 0>>>>]>>],
     [fields |-> 3, groups |-> <<<<0>>, <<1>>>>,
      batches |-> <<[x |-> <<<<Px(1), Px(2)>>>>, c |-> <<<<0, Grid>>>>]>>],
     [fields |-> 6, groups |-> <<<<0>>, <<1>>>>,
      batches |-> <<[x |-> <<<<Px(1), Px(2)>>, <<Px(3), Px(4)>>>>,
                     c |-> <<<<Grid, 0>>, <<0, Grid>>>>]>>]}

\* num_workers as passed, or left at its default of lines 83 and 306
WorkerCounts == {-1, 0}

\* DataLoader(..., num_workers=n) raises ValueError for a negative n
RejectsWorkers(n) == n < 0

\* line 96: unpacking a batch into x, y, c fails unless it has 3 fields
UnpackFails(fields) == fields # UnpackedFields

\* line 102: num_operands = x.shape[1] if x.shape[1] > 2 else 1
UncNumOperands(channels) == IF channels > 2 THEN channels ELSE 1

\* the channel index j // num_operands of lines 106, 112, 127 and 148
MixChannel(col, channels) == col \div UncNumOperands(channels)

\* lines 104-115: x[c[:, j] == value, channel], the pixels of the rows
\* whose column j holds value, in row order
RECURSIVE PossibleOptions(_, _, _, _, _, _)
PossibleOptions(x, c, col, channel, value, r) ==
    IF r > Len(x) THEN <<>>
    ELSE (IF c[r][col + 1] = value THEN <<x[r][channel + 1]>> ELSE <<>>)
         \o PossibleOptions(x, c, col, channel, value, r + 1)

\* lines 118-121 and 139-142: the values np.random.uniform may return
UniformOne_Low(w) == w..Grid

UniformOne(w) == (Grid - w)..Grid

UniformZero(w) == 0..w

\* every value above 0 collapsed to 1
Rethreshold_Ceil(v) == IF v > 0 THEN Grid ELSE 0

\* line 153: int(c_new[i, j] >= 0.5), in grid units
Rethreshold(v) == IF 2 * v >= Grid THEN Grid ELSE 0

\* lines 127-137 and 148-151: own * keep + (1 - keep) * other, keep in
\* grid units
Blend(own, keep, other) ==
    <<own[1] * keep * other[2] + (Grid - keep) * other[1] * own[2],
      own[2] * other[2] * Grid>>

UncInit ==
    /\ component = "inject_uncertainty"
    /\ pc = "unc_start"
    /\ ds \in UncLoaders
    /\ uncertain_width \in 0..Grid
    /\ mixing \in BOOLEAN
    /\ threshold \in BOOLEAN
    /\ num_workers \in WorkerCounts
    /\ batch_no = 1 /\ col_j = 0 /\ row_i = 0
    /\ x_new = <<>> /\ c_new = <<>>
    /\ possible_options_pos = <<>> /\ possible_options_neg = <<>>
    /\ unc_xs = <<>> /\ unc_cs = <<>> /\ results = None
    /\ rng \in CallerStates
    /\ config = <<>> /\ files = <<>> /\ GenQuiet /\ RaceIdle
    /\ SSIdle /\ AddIdle /\ EvalIdle

\* the seed of line 88
InjectorSeed == 42

\* line 88: seed_everything(42) seeds both of the process's generators
UncSeed ==
    /\ pc = "unc_start"
    /\ rng' = Seeded(rng, InjectorSeed)
    /\ pc' = "unc_batch"
    /\ UNCHANGED <<component, ssVars, addVars, uncVars, genNoRng, raceVars, evalVars>>

NumRows == Len(c_new)

NumColumns == Len(c_new[1])

NumChannels == Len(x_new[1])

\* line 96 on a loader whose batches do not have 3 fields: ValueError
UncUnpackRaises ==
    /\ pc = "unc_batch"
    /\ batch_no <= Len(ds.batches)
    /\ UnpackFails(ds.fields)
    /\ pc' = "unc_raised"
    /\ UNCHANGED <<component, ssVars, addVars, uncVars, genVars, raceVars, evalVars>>

\* lines 96-100: the next batch; c_new and x_new share the batch's memory
UncBatch ==
    /\ pc = "unc_batch"
    /\ batch_no <= Len(ds.batches)
    /\ ~UnpackFails(ds.fields)
    /\ x_new' = ds.batches[batch_no].x
    /\ c_new' = ds.batches[batch_no].c
    /\ col_j' = 0 /\ row_i' = 0
    /\ pc' = IF uncertain_width # 0 THEN "unc_column" ELSE "unc_append"
    /\ UNCHANGED <<component, ssVars, addVars, genVars, raceVars, evalVars, ds,
                   uncertain_width, mixing,
                   num_workers,
                   threshold, batch_no, possible_options_pos,
                   possible_options_neg, unc_xs, unc_cs, results>>

\* lines 101-115: the next column, and with mixing the pixels to mix from
UncColumn ==
    /\ pc = "unc_column"
    /\ col_j < NumColumns
    /\ mixing => MixChannel(col_j, NumChannels) < NumChannels
    /\ IF mixing
       THEN /\ possible_options_pos' =
                  PossibleOptions(x_new, c_new, col_j,
                                  MixChannel(col_j, NumChannels), Grid, 1)
            /\ possible_options_neg' =
                  PossibleOptions(x_new, c_new, col_j,
                                  MixChannel(col_j, NumChannels), 0, 1)
       ELSE UNCHANGED <<possible_options_pos, possible_options_neg>>
    /\ row_i' = 0
    /\ pc' = "unc_cell"
    /\ UNCHANGED <<component, ssVars, addVars, genVars, raceVars, evalVars, ds,
                   uncertain_width, mixing,
                   num_workers,
                   threshold, batch_no, col_j, x_new, c_new, unc_xs, unc_cs,
                   results>>

\* lines 104-115 with j // num_operands past the last channel: IndexError
UncColumnIndexError ==
    /\ pc = "unc_column"
    /\ col_j < NumColumns
    /\ mixing /\ MixChannel(col_j, NumChannels) >= NumChannels
    /\ pc' = "unc_raised"
    /\ UNCHANGED <<component, ssVars, addVars, uncVars, genVars, raceVars, evalVars>>

\* the value written to c_new[i, j] (line 153 included)
StoredConcept(v) == IF threshold THEN Rethreshold(v) ELSE v

\* lines 116-153 for one sample of the column
UncCell ==
    /\ pc = "unc_cell"
    /\ row_i < NumRows
    /\ LET r == row_i + 1
           ch == MixChannel(col_j, NumChannels) + 1
           one == c_new[r][col_j + 1] = Grid
           opts == IF one THEN possible_options_neg ELSE possible_options_pos
       IN /\ mixing => Len(opts) > 0
          /\ \E v \in (IF one THEN UniformOne(uncertain_width)
                              ELSE UniformZero(uncertain_width)) :
                /\ c_new' = [c_new EXCEPT ![r][col_j + 1] = StoredConcept(v)]
                /\ IF mixing
                   THEN \E selected_mix \in 1..Len(opts) :
                           x_new' = [x_new EXCEPT ![r][ch] =
                               Blend(@, IF one THEN v ELSE Grid - v,
                                     opts[selected_mix])]
                   ELSE UNCHANGED x_new
    /\ row_i' = row_i + 1
    /\ UNCHANGED <<component, pc, ssVars, addVars, genVars, raceVars, evalVars, ds,
                   uncertain_width, mixing,
                   num_workers,
                   threshold, batch_no, col_j, possible_options_pos,
                   possible_options_neg, unc_xs, unc_cs, results>>

\* lines 117-126 and 138-147 with no row of the opposite value in the
\* batch: np.random.randint(0, 0) raises ValueError, after the value drawn
\* at line 118 or 139 was stored and before line 153
UncRandintRaises ==
    /\ pc = "unc_cell"
    /\ row_i < NumRows
    /\ mixing
    /\ LET r == row_i + 1
           one == c_new[r][col_j + 1] = Grid
       IN /\ Len(IF one THEN possible_options_neg ELSE possible_options_pos) = 0
          /\ \E v \in (IF one THEN UniformOne(uncertain_width)
                              ELSE UniformZero(uncertain_width)) :
                c_new' = [c_new EXCEPT ![r][col_j + 1] = v]
    /\ pc' = "unc_raised"
    /\ UNCHANGED <<component, ssVars, addVars, genVars, raceVars, evalVars, ds,
                   uncertain_width, mixing, num_workers, threshold, batch_no,
                   col_j, row_i, x_new, possible_options_pos,
                   possible_options_neg, unc_xs, unc_cs, results>>

\* the end of the loop over the rows of a column
UncColumnEnd ==
    /\ pc = "unc_cell"
    /\ row_i = NumRows
    /\ col_j' = col_j + 1
    /\ pc' = IF col_j + 1 < NumColumns THEN "unc_column" ELSE "unc_append"
    /\ UNCHANGED <<component, ssVars, addVars, genVars, raceVars, evalVars, ds,
                   uncertain_width, mixing,
                   num_workers,
                   threshold, batch_no, row_i, x_new, c_new,
                   possible_options_pos, possible_options_neg, unc_xs, unc_cs,
                   results>>

\* lines 155-156
UncAppend ==
    /\ pc = "unc_append"
    /\ unc_xs' = Append(unc_xs, x_new)
    /\ unc_cs' = Append(unc_cs, c_new)
    /\ batch_no' = batch_no + 1
    /\ pc' = "unc_batch"
    /\ UNCHANGED <<component, ssVars, addVars, genVars, raceVars, evalVars, ds,
                   uncertain_width, mixing,
                   num_workers,
                   threshold, col_j, row_i, x_new, c_new, possible_options_pos,
                   possible_options_neg, results>>

\* lines 157-162: the new loader over TensorDataset(x, y, c)
UncReturn ==
    /\ pc = "unc_batch"
    /\ batch_no > Len(ds.batches)
    /\ ~RejectsWorkers(num_workers)
    /\ results' = <<[fields |-> UnpackedFields, x |-> Concat(unc_xs, 1),
                     c |-> Concat(unc_cs, 1)]>>
    /\ pc' = "unc_done"
    /\ UNCHANGED <<component, ssVars, addVars, genVars, raceVars, evalVars, ds,
                   uncertain_width, mixing,
                   num_workers,
                   threshold, batch_no, col_j, row_i, x_new, c_new,
                   possible_options_pos, possible_options_neg, unc_xs, unc_cs>>

\* line 161 with a negative worker count: ValueError
UncLoaderRaises ==
    /\ pc = "unc_batch"
    /\ batch_no > Len(ds.batches)
    /\ RejectsWorkers(num_workers)
    /\ pc' = "unc_raised"
    /\ UNCHANGED <<component, ssVars, addVars, uncVars, genVars, raceVars, evalVars>>

UncNext ==
    \/ UncSeed
    \/ UncUnpackRaises
    \/ UncLoaderRaises
    \/ UncBatch
    \/ UncColumn
    \/ UncColumnIndexError
    \/ UncCell
    \/ UncRandintRaises
    \/ UncColumnEnd
    \/ UncAppend
    \/ UncReturn

SpecUnc == UncInit /\ [][UncNext]_vars

----------------------------------------------------------------------------
(* Claims about inject_uncertainty *)

\* the operand (0-based) whose concept group holds column col
OperandOfColumn(groups, col) ==
    CHOOSE o \in 0..(Len(groups) - 1) : col \in Range(groups[o + 1])

\* C19: with mixing, the step for column j of a sample blends the channel
\* of the operand that contributes column j and leaves the channels of
\* the sample's other operands, and every other sample, as they were
C19_MixesOperandChannel ==
    [][(pc = "unc_cell" /\ mixing /\ row_i' = row_i + 1) =>
          \A r \in 1..NumRows : \A ch \in 1..NumChannels :
              x_new'[r][ch] # x_new[r][ch] =>
                  /\ r = row_i + 1
                  /\ ch = OperandOfColumn(ds.groups, col_j) + 1]_vars

\* the concept values of the input loader, batch after batch
OriginalConcepts == Concat([b \in 1..Len(ds.batches) |-> ds.batches[b].c], 1)

\* the pixels of the input loader, batch after batch
OriginalPixels == Concat([b \in 1..Len(ds.batches) |-> ds.batches[b].x], 1)

\* C24: with re-thresholding on and a width below 0.5 every concept value
\* of the returned loader is the 0 or 1 it was in the input
C24_RethresholdIsIdentity ==
    (pc = "unc_done" /\ threshold /\ 2 * uncertain_width < Grid) =>
        results[1].c = OriginalConcepts

\* an injection with re-thresholding and a width in (0, 0.5) returned, having
\* drawn values and changed a pixel by mixing
C24_Witness ==
    /\ pc = "unc_done" /\ threshold /\ mixing
    /\ uncertain_width > 0 /\ 2 * uncertain_width < Grid
    /\ \E r \in 1..Len(results[1].x) : \E ch \in 1..Len(results[1].x[r]) :
          results[1].x[r][ch][1] * OriginalPixels[r][ch][2] #
              OriginalPixels[r][ch][1] * results[1].x[r][ch][2]
    /\ \E r \in 1..Len(results[1].c) : \E k, m \in 1..Len(results[1].c[r]) :
          results[1].c[r][k] = Grid /\ results[1].c[r][m] = 0

\* C9: after inject_uncertainty with width w in (0,1] and re-thresholding
\* off, every concept that was 1 lies in [1-w, 1] and every concept that
\* was 0 lies in [0, w]; with re-thresholding on every concept value is
\* exactly 0 or 1.
C9_UncertaintyBounds ==
    (pc = "unc_done" /\ uncertain_width > 0) =>
        \A r \in 1..Len(results[1].c) : \A k \in 1..Len(results[1].c[r]) :
            LET v == results[1].c[r][k]
                orig == OriginalConcepts[r][k]
            IN IF threshold THEN v \in {0, Grid}
               ELSE /\ orig = Grid => (Grid - uncertain_width <= v /\ v <= Grid)
                    /\ orig = 0 => (0 <= v /\ v <= uncertain_width)

\* an injection without re-thresholding returned a concept strictly inside
\* (0, 1) for an original 1 and one for an original 0
C9_Witness ==
    /\ pc = "unc_done" /\ uncertain_width > 0 /\ ~threshold
    /\ \E r \in 1..Len(results[1].c) : \E k, m \in 1..Len(results[1].c[r]) :
          /\ OriginalConcepts[r][k] = Grid
          /\ results[1].c[r][k] < Grid /\ results[1].c[r][k] > 0
          /\ OriginalConcepts[r][m] = 0
          /\ results[1].c[r][m] > 0

----------------------------------------------------------------------------
(* generate_data and load_mnist_addition *)

\* bound: the number of generate_data invocations that share a cache
\* directory
MaxCalls == 3

\* the number of tensors of a TensorDataset built by load_mnist_addition
\* (lines 384, 453, 492) and unpacked by the scan of line 645
BundleFields == 6

\* config["selected_digits"] with config["num_operands"]
GenOperandSpecs ==
    {[nested |-> FALSE, digits |-> <<0, 1>>, num_operands |-> 2],
     [nested |-> TRUE, digits |-> <<<<0, 1, 2>>, <<0, 1>>>>, num_operands |-> 2],
     [nested |-> FALSE, digits |-> <<0, 1, 2>>, num_operands |-> 2],
     [nested |-> TRUE, digits |-> <<<<0, 1>>>>, num_operands |-> 2]}

\* the configs of the first run on a cache directory
GenConfigs ==
    [operands : GenOperandSpecs,
     even_concepts : BOOLEAN,
     even_labels : BOOLEAN,
     threshold_labels : {None, <<2>>},
     sampling_percent : {<<1, 1>>, <<1, 2>>},
     sampling_groups : BOOLEAN,
     uncertain_width : {0, 1},
     weight_loss : BOOLEAN,
     val_percent : {<<0, 1>>, <<1, 2>>},
     num_workers : WorkerCounts,
     train_dataset_size : {4},
     test_dataset_size : {2}]

\* the configs of the runs that follow it on the same directory
CacheConfigs ==
    [operands : GenOperandSpecs,
     even_concepts : BOOLEAN,
     even_labels : {FALSE},
     threshold_labels : {None},
     sampling_percent : {<<1, 1>>, <<1, 2>>},
     sampling_groups : BOOLEAN,
     uncertain_width : {0},
     weight_loss : BOOLEAN,
     val_percent : {<<1, 2>>},
     num_workers : {0},
     train_dataset_size : {4},
     test_dataset_size : {2}]

\* the set S as a sorted list
RECURSIVE SortedSeq(_)
SortedSeq(S) ==
    IF S = {} THEN <<>>
    ELSE LET m == CHOOSE v \in S : \A w \in S : v <= w
         IN <<m>> \o SortedSeq(S \ {m})

\* lines 557-559 and 576-578: sorted(np.random.permutation(total)[:count]),
\* every list the permutation may give
PermutationPrefixes(total, count) ==
    {SortedSeq(S) : S \in {T \in SUBSET (0..(total - 1)) : Cardinality(T) = count}}

\* int(np.ceil(total * sampling_percent)) of lines 549 and 568
SampledCount(total, percent) ==
    FloatCeil(RatioTimesInt(percent, total))

\* the file names of lines 550-553 and 569-572
CacheFile(groups, percent, operands) ==
    <<IF groups THEN "selected_groups" ELSE "selected_concepts", percent, operands>>

\* a cache test that looks at the file only
UseCache_IgnoreRerun(force, file, dir) == file \in DOMAIN dir

\* the condition of lines 554 and 573: (not rerun) and os.path.exists(file)
UseCache(force, file, dir) == ~force /\ file \in DOMAIN dir

\* lines 526-537: the concept groups as (name, concepts) in insertion order
RECURSIVE LayoutFrom(_, _, _)
LayoutFrom(digits, operand_idx, count) ==
    IF operand_idx >= Len(digits) THEN <<>>
    ELSE LET used_operand_digits == digits[operand_idx + 1]
             num_curr_concepts == IF Len(used_operand_digits) > 2
                                  THEN Len(used_operand_digits) ELSE 1
         IN <<[name |-> operand_idx,
               concepts |-> [k \in 1..num_curr_concepts |-> count + k - 1]]>>
            \o LayoutFrom(digits, operand_idx + 1, count + num_curr_concepts)

ConceptGroupMap(digits, n, even) ==
    IF even THEN [o \in 1..n |-> [name |-> o - 1, concepts |-> <<o - 1>>]]
    ELSE LayoutFrom(digits, 0, 0)

ConceptCount(group_map) ==
    SumSeq([g \in 1..Len(group_map) |-> Len(group_map[g].concepts)], 1)

\* lines 532-540; None stands for a name that was never bound
NTasks(digits, even, even_lab, thr) ==
    IF even_lab \/ thr # None THEN <<1>>
    ELSE IF even THEN None
    ELSE <<1 + SumSeq([o \in 1..Len(digits) |-> MaxOf(Range(digits[o]))], 1)>>

\* the first column of every selected group only
GroupConcepts_FirstOnly(group_map, groups) ==
    SortedSeq({group_map[groups[g] + 1].concepts[1] : g \in 1..Len(groups)})

\* lines 561-565
GroupConcepts(group_map, groups) ==
    SortedSeq(UNION {Range(group_map[groups[g] + 1].concepts) : g \in 1..Len(groups)})

\* line 583
IndexRemap(selected) ==
    [c \in Range(selected) |-> CHOOSE x \in 0..(Len(selected) - 1) : selected[x + 1] = c]

SelectSeq2(s, Keep(_)) == SelectSeq(s, Keep)

\* lines 593-596: the members of a group that were selected, remapped
RemappedMembers(members, selected) ==
    LET kept == SelectSeq2(members, LAMBDA c : c \in Range(selected))
    IN [k \in 1..Len(kept) |-> IndexRemap(selected)[kept[k]]]

\* lines 585-596 from the k-th selected concept on
RECURSIVE RebuildFrom(_, _, _, _)
RebuildFrom(k, selected, group_map, new_concept_group) ==
    IF k > Len(selected) THEN new_concept_group
    ELSE LET added == {new_concept_group[a].name : a \in 1..Len(new_concept_group)}
             hits == SelectSeq2(group_map,
                        LAMBDA g : /\ selected[k] \in Range(g.concepts)
                                   /\ g.name \notin added)
         IN RebuildFrom(k + 1, selected, group_map,
                new_concept_group \o
                [h \in 1..Len(hits) |->
                    [name |-> hits[h].name,
                     concepts |-> RemappedMembers(hits[h].concepts, selected)]])

\* the concept width produce_addition_set gives before the transform
FullWidth(digits, even) ==
    SumSeq([o \in 1..Len(digits) |->
               Len(OperandConcepts(digits[o], Remap(digits[o]), digits[o][1], even))], 1)

\* lines 381-385, 451-454 and 490-493: the loader over the six tensors
\* get_ss_components returns, each with one row per sample
Loader(samples, width) ==
    [fields |-> BundleFields,
     rows |-> [f \in 1..BundleFields |-> samples],
     concept_width |-> width]

\* int(train_dataset_size * val_percent) of line 432
ValSize(cfg) ==
    FloatFloor(RatioTimesInt(cfg.val_percent, cfg.train_dataset_size))

\* lines 386-395: inject_uncertainty re-seeds before its loop
AfterInjectorSeed(state) ==
    IF config.uncertain_width # 0 /\ ~config.even_concepts
    THEN Seeded(state, InjectorSeed) ELSE state

\* the labeled_ratio argument of generate_data as <<numerator, denominator>>;
\* 1/10 is its default (line 512)
GenRatios == {<<1, 10>>, <<1, 1>>}

\* lines 208-250: the sums of one allowed digit per operand, from operand o on
RECURSIVE OperandSums(_, _)
OperandSums(digits, o) ==
    IF o > Len(digits) THEN {0}
    ELSE {d + rest : d \in Range(digits[o]), rest \in OperandSums(digits, o + 1)}

\* lines 255-260: the task labels a synthesized sample may get
TaskLabels(digits, even_lab, bound) ==
    {LabelsAppended(total, even_lab, bound)[1] : total \in OperandSums(digits, 1)}

GenDigitLists ==
    {NormalizeDigits(spec, spec.num_operands) :
        spec \in {sp \in GenOperandSpecs : ~DigitsLengthMismatch(sp, sp.num_operands)}}

\* lines 33-46 and 19-23 inside the call of lines 490-491: for a set of task
\* labels, a ratio and a train set size, the numbers of labeled samples the
\* stratified selection may leave, over all label vectors of the train set
LabeledCounts ==
    [labelset \in {TaskLabels(d, e, b) : d \in GenDigitLists, e \in BOOLEAN,
                                        b \in {cfg.threshold_labels : cfg \in GenConfigs}},
     ratio \in GenRatios,
     size \in {cfg.train_dataset_size : cfg \in GenConfigs} |->
        {Len(LabeledIdxs(LChoice(labels, ratio, TRUE))) :
            labels \in [0..(size - 1) -> labelset]}]

\* the same for the train set of this run
TrainLabeledCounts ==
    LabeledCounts[TaskLabels(gd_selected_digits, config.even_labels,
                             config.threshold_labels),
                  gd_labeled_ratio, config.train_dataset_size]

GenLocalsInit ==
    /\ gd_selected_digits = None /\ num_concepts = 0 /\ concept_group_map = <<>>
    /\ n_tasks = None /\ selection = None /\ selected_concepts = None
    /\ test_dl = None /\ val_dl = None /\ train_dl = None
    /\ imbalance = None /\ gd_error = ""

GenInit ==
    /\ component = "generate_data"
    /\ pc = "gd_start"
    /\ config \in GenConfigs
    /\ rerun \in BOOLEAN
    /\ seed \in Seeds
    /\ gd_labeled_ratio \in GenRatios
    /\ rng = ProcessStart /\ draws = {}
    /\ files = EmptyFn /\ returned = EmptyFn /\ calls = 1
    /\ GenLocalsInit
    /\ SSIdle /\ AddIdle /\ UncIdle /\ RaceIdle /\ EvalIdle

GenKey == CacheFile(config.sampling_groups, config.sampling_percent,
                    config.operands.num_operands)

Subsampling == config.sampling_percent # <<1, 1>>

\* lines 516-521 with a mismatching list of lists
GenRaiseValueError ==
    /\ pc = "gd_start"
    /\ DigitsLengthMismatch(config.operands, config.operands.num_operands)
    /\ gd_error' = "ValueError: selected_digits"
    /\ pc' = "gd_raised"
    /\ UNCHANGED <<component, ssVars, addVars, uncVars, raceVars, evalVars, genIn, rng,
                   draws, files,
                   returned,
                   calls, gd_selected_digits, num_concepts, concept_group_map,
                   n_tasks, selection, selected_concepts, test_dl, val_dl,
                   train_dl, imbalance>>

\* lines 516-543: the operand lists, the concept groups and the task count
GenLayout ==
    /\ pc = "gd_start"
    /\ ~DigitsLengthMismatch(config.operands, config.operands.num_operands)
    /\ LET digits == NormalizeDigits(config.operands, config.operands.num_operands)
           group_map == ConceptGroupMap(digits, config.operands.num_operands,
                                        config.even_concepts)
       IN /\ gd_selected_digits' = digits
          /\ concept_group_map' = group_map
          /\ num_concepts' = ConceptCount(group_map)
          /\ n_tasks' = NTasks(digits, config.even_concepts, config.even_labels,
                               config.threshold_labels)
    /\ pc' = IF Subsampling THEN "gd_subsample" ELSE "gd_test"
    /\ UNCHANGED <<component, ssVars, addVars, uncVars, raceVars, evalVars, genIn, rng,
                   draws, files,
                   returned,
                   calls, selection, selected_concepts, test_dl, val_dl,
                   train_dl, imbalance, gd_error>>

\* the rest of the subsampling step once the selection is known:
\* lines 561-566 and 580-602
Resample(chosen) ==
    LET concepts == IF config.sampling_groups
                    THEN GroupConcepts(concept_group_map, chosen)
                    ELSE chosen
    IN /\ selected_concepts' = <<concepts>>
       /\ concept_group_map' = RebuildFrom(1, concepts, concept_group_map, <<>>)
       /\ num_concepts' = IF config.sampling_groups THEN Len(concepts)
                          ELSE SampledCount(num_concepts, config.sampling_percent)

\* lines 545-602 when the cached selection is used; a cached group index is
\* within the groups of this run, the file name fixing their number
GenSubsampleCached ==
    /\ pc = "gd_subsample"
    /\ UseCache(rerun, GenKey, files)
    /\ selection' = <<[indices |-> files[GenKey], source |-> "file"]>>
    /\ Resample(files[GenKey])
    /\ pc' = "gd_test"
    /\ UNCHANGED <<component, ssVars, addVars, uncVars, raceVars, evalVars, genIn, rng,
                   draws, files,
                   returned,
                   calls, gd_selected_digits, n_tasks, test_dl, val_dl,
                   train_dl, imbalance, gd_error>>

\* lines 545-602 when the selection is drawn and saved
GenSubsampleFresh ==
    /\ pc = "gd_subsample"
    /\ ~UseCache(rerun, GenKey, files)
    /\ LET total == IF config.sampling_groups THEN Len(concept_group_map)
                    ELSE num_concepts
       IN \E chosen \in PermutationPrefixes(total,
                            SampledCount(total, config.sampling_percent)) :
             /\ selection' = <<[indices |-> chosen, source |-> "permutation"]>>
             /\ files' = [k \in DOMAIN files \cup {GenKey} |->
                             IF k = GenKey THEN chosen ELSE files[k]]
             /\ Resample(chosen)
    /\ pc' = "gd_test"
    /\ draws' = draws \cup {Draw("permutation", rng)}
    /\ UNCHANGED rng
    /\ UNCHANGED <<component, ssVars, addVars, uncVars, raceVars, evalVars, genIn, returned, calls,
                   gd_selected_digits, n_tasks, test_dl, val_dl, train_dl,
                   imbalance, gd_error>>

\* lines 274-277 inside load_mnist_addition: the concept columns left by
\* the transform generate_data passes
TransformInRange ==
    selected_concepts # None =>
        \A k \in 1..Len(selected_concepts[1]) :
            selected_concepts[1][k] < FullWidth(gd_selected_digits, config.even_concepts)

TransformedWidth ==
    IF selected_concepts = None
    THEN FullWidth(gd_selected_digits, config.even_concepts)
    ELSE Len(selected_concepts[1])

\* the condition of lines 386, 455 and 495
InjectorApplies == config.uncertain_width # 0 /\ ~config.even_concepts

\* line 161: the loader inject_uncertainty returns
Injected(dl) ==
    [fields |-> UnpackedFields,
     rows |-> [f \in 1..UnpackedFields |-> dl.rows[f]],
     concept_width |-> dl.concept_width]

\* lines 386-395, 455-464 and 495-504 on the loader just built
AfterInjector(dl) ==
    IF InjectorApplies /\ ~UnpackFails(dl.fields) THEN Injected(dl) ELSE dl

InjectorRaises(dl) == InjectorApplies /\ UnpackFails(dl.fields)

\* line 277 with a cached column past the concepts of this run
GenTransformIndexError ==
    /\ pc = "gd_test"
    /\ ~TransformInRange
    /\ gd_error' = "IndexError: concept_transform"
    /\ pc' = "gd_raised"
    /\ rng' = Seeded(rng, seed)
    /\ draws' = draws \cup {Draw("operands of test", Seeded(rng, seed))}
    /\ UNCHANGED <<component, ssVars, addVars, uncVars, raceVars, evalVars, genIn, files, returned,
                   calls, gd_selected_digits, num_concepts, concept_group_map,
                   n_tasks, selection, selected_concepts, test_dl, val_dl,
                   train_dl, imbalance>>

\* line 385 with a negative worker count: ValueError
GenLoaderRaises ==
    /\ pc = "gd_test"
    /\ TransformInRange
    /\ RejectsWorkers(config.num_workers)
    /\ gd_error' = "ValueError: num_workers"
    /\ pc' = "gd_raised"
    /\ rng' = Seeded(rng, seed)
    /\ draws' = draws \cup {Draw("operands of test", Seeded(rng, seed))}
    /\ UNCHANGED <<component, ssVars, addVars, uncVars, raceVars, evalVars, genIn, files, returned,
                   calls, gd_selected_digits, num_concepts, concept_group_map,
                   n_tasks, selection, selected_concepts, test_dl, val_dl,
                   train_dl, imbalance>>

\* lines 335-397: the test loader
GenTestLoader ==
    /\ pc = "gd_test"
    /\ TransformInRange
    /\ LET dl == Loader(config.test_dataset_size, TransformedWidth)
       IN /\ ~RejectsWorkers(config.num_workers)
          /\ test_dl' = <<AfterInjector(dl)>>
          /\ gd_error' = IF InjectorRaises(dl) THEN "ValueError: unpack" ELSE gd_error
          /\ pc' = IF InjectorRaises(dl) THEN "gd_raised" ELSE "gd_val"
    /\ rng' = AfterInjectorSeed(Seeded(rng, seed))
    /\ draws' = draws \cup {Draw("operands of test", Seeded(rng, seed))}
    /\ UNCHANGED <<component, ssVars, addVars, uncVars, raceVars, evalVars, genIn, files, returned,
                   calls, gd_selected_digits, num_concepts, concept_group_map,
                   n_tasks, selection, selected_concepts, val_dl, train_dl,
                   imbalance>>

\* lines 422-466: the validation loader, or None
GenValLoader ==
    /\ pc = "gd_val"
    /\ LET dl == Loader(ValSize(config), TransformedWidth)
           split == config.val_percent[1] # 0
       IN /\ val_dl' = IF split THEN <<AfterInjector(dl)>> ELSE None
          /\ gd_error' = IF split /\ InjectorRaises(dl)
                         THEN "ValueError: unpack" ELSE gd_error
          /\ pc' = IF split /\ InjectorRaises(dl) THEN "gd_raised" ELSE "gd_train"
    /\ rng' = IF config.val_percent[1] # 0 THEN AfterInjectorSeed(rng) ELSE rng
    /\ draws' = IF config.val_percent[1] # 0
               THEN draws \cup {Draw("train_test_split", rng),
                                Draw("operands of val", rng)}
               ELSE draws
    /\ UNCHANGED <<component, ssVars, addVars, uncVars, raceVars, evalVars, genIn, files, returned,
                   calls, gd_selected_digits, num_concepts, concept_group_map,
                   n_tasks, selection, selected_concepts, test_dl, train_dl,
                   imbalance>>

\* lines 490-491 when get_ss_components raises: line 35 seeded Python's
\* generator, and the fit or the query of lines 24-26 fails for want of
\* KNeighborsK labeled samples
GenTrainSSRaises ==
    /\ pc = "gd_train"
    /\ \E count \in TrainLabeledCounts : count < KNeighborsK
    /\ gd_error' = "ValueError: nearest neighbors"
    /\ pc' = "gd_raised"
    /\ rng' = SeededPython(rng, SSSeed)
    /\ draws' = draws \cup {Draw("operands of train", rng)}
    /\ UNCHANGED <<component, ssVars, addVars, uncVars, raceVars, evalVars, genIn, files,
                   returned, calls, gd_selected_digits, num_concepts,
                   concept_group_map, n_tasks, selection, selected_concepts,
                   test_dl, val_dl, train_dl, imbalance>>

\* lines 468-506: the train loader
GenTrainLoader ==
    /\ pc = "gd_train"
    /\ \E count \in TrainLabeledCounts : count >= KNeighborsK
    /\ LET dl == Loader(config.train_dataset_size, TransformedWidth)
       IN /\ train_dl' = <<AfterInjector(dl)>>
          /\ gd_error' = IF InjectorRaises(dl) THEN "ValueError: unpack" ELSE gd_error
          /\ pc' = IF InjectorRaises(dl) THEN "gd_raised" ELSE "gd_imbalance"
    /\ rng' = AfterInjectorSeed(SeededPython(rng, SSSeed))
    /\ draws' = draws \cup {Draw("operands of train", rng)}
    /\ UNCHANGED <<component, ssVars, addVars, uncVars, raceVars, evalVars, genIn, files, returned,
                   calls, gd_selected_digits, num_concepts, concept_group_map,
                   n_tasks, selection, selected_concepts, test_dl, val_dl,
                   imbalance>>

\* line 647: adding a row of concept_width sums into a vector of
\* num_concepts zeros
Broadcasts(concept_width, count) == concept_width = count \/ concept_width = 1

\* lines 641-651 when the scan of the train loader raises
GenImbalanceRaises ==
    /\ pc = "gd_imbalance"
    /\ config.weight_loss
    /\ \/ train_dl[1].fields # BundleFields
       \/ ~Broadcasts(train_dl[1].concept_width, num_concepts)
    /\ gd_error' = "ValueError: imbalance scan"
    /\ pc' = "gd_raised"
    /\ UNCHANGED <<component, ssVars, addVars, uncVars, raceVars, evalVars, genIn, rng,
                   draws, files,
                   returned,
                   calls, gd_selected_digits, num_concepts, concept_group_map,
                   n_tasks, selection, selected_concepts, test_dl, val_dl,
                   train_dl, imbalance>>

\* lines 641-651: the imbalance vector, one entry per concept, or None
GenImbalance ==
    /\ pc = "gd_imbalance"
    /\ config.weight_loss =>
          /\ train_dl[1].fields = BundleFields
          /\ Broadcasts(train_dl[1].concept_width, num_concepts)
    /\ imbalance' = IF config.weight_loss THEN <<[shape |-> num_concepts]>> ELSE None
    /\ pc' = "gd_return"
    /\ UNCHANGED <<component, ssVars, addVars, uncVars, raceVars, evalVars, genIn, rng,
                   draws, files,
                   returned,
                   calls, gd_selected_digits, num_concepts, concept_group_map,
                   n_tasks, selection, selected_concepts, test_dl, val_dl,
                   train_dl, gd_error>>

\* line 653: the return reads n_tasks, which lines 526-540 may leave unbound
GenReturn ==
    /\ pc = "gd_return"
    /\ gd_error' = IF n_tasks = None THEN "UnboundLocalError: n_tasks" ELSE gd_error
    /\ pc' = IF n_tasks = None THEN "gd_raised" ELSE "gd_done"
    /\ UNCHANGED <<component, ssVars, addVars, uncVars, raceVars, evalVars, genIn, rng,
                   draws, files,
                   returned,
                   calls, gd_selected_digits, num_concepts, concept_group_map,
                   n_tasks, selection, selected_concepts, test_dl, val_dl,
                   train_dl, imbalance>>

\* the next invocation on the same cache directory, in a new process;
\* returned keeps, per
\* cache file, the selection the latest earlier invocation ended up with
GenInvokeAgain ==
    /\ pc \in {"gd_done", "gd_raised"}
    /\ calls < MaxCalls
    /\ calls' = calls + 1
    /\ config' \in CacheConfigs
    /\ rerun' \in BOOLEAN
    /\ returned' = IF selection = None THEN returned
                   ELSE [k \in DOMAIN returned \cup {GenKey} |->
                            IF k = GenKey THEN selection[1].indices ELSE returned[k]]
    /\ gd_selected_digits' = None /\ num_concepts' = 0 /\ concept_group_map' = <<>>
    /\ n_tasks' = None /\ selection' = None /\ selected_concepts' = None
    /\ test_dl' = None /\ val_dl' = None /\ train_dl' = None
    /\ imbalance' = None /\ gd_error' = ""
    /\ pc' = "gd_start"
    /\ seed' \in Seeds
    /\ rng' = ProcessStart /\ draws' = {}
    /\ UNCHANGED <<component, ssVars, addVars, uncVars, raceVars, evalVars, files,
                   gd_labeled_ratio>>

GenNext ==
    \/ GenRaiseValueError
    \/ GenLayout
    \/ GenSubsampleCached
    \/ GenSubsampleFresh
    \/ GenTransformIndexError
    \/ GenLoaderRaises
    \/ GenTestLoader
    \/ GenValLoader
    \/ GenTrainSSRaises
    \/ GenTrainLoader
    \/ GenImbalanceRaises
    \/ GenImbalance
    \/ GenReturn
    \/ GenInvokeAgain

SpecGen == GenInit /\ [][GenNext]_vars

Loaders == {test_dl, val_dl, train_dl} \ {None}

\* C4: every loader load_mnist_addition builds yields six tensors with one
\* row per sample each, also when the injector is applied to it
C4_LoadersYieldSixTuples ==
    /\ gd_error # "ValueError: unpack"
    /\ \A dl \in Loaders :
          /\ dl[1].fields = BundleFields
          /\ \A f, g \in DOMAIN dl[1].rows : dl[1].rows[f] = dl[1].rows[g]

\* produce_addition_set on its own, and runs of generate_data
SpecOperands == (AddInit \/ GenInit) /\ [][AddNext \/ GenNext]_vars

\* C15: with a list of lists whose length differs from num_operands the
\* first step of produce_addition_set and of generate_data is the ValueError:
\* nothing has been partitioned, drawn or synthesized, and no cache file has
\* been read or written
C15_MismatchRaisesFirst ==
    [][/\ (/\ pc = "add_start"
           /\ selected_digits.nested
           /\ Len(selected_digits.digits) # num_operands) =>
              /\ pc' = "add_raised"
              /\ UNCHANGED <<total_operand_samples, total_operand_labels,
                             sum_train_samples, sum_train_concepts, sum_train_labels>>
       /\ (/\ pc = "gd_start"
           /\ config.operands.nested
           /\ Len(config.operands.digits) # config.operands.num_operands) =>
              /\ pc' = "gd_raised"
              /\ gd_error' = "ValueError: selected_digits"
              /\ UNCHANGED <<files, selection, selected_concepts, test_dl, val_dl,
                             train_dl>>]_vars

\* a later run on a directory that holds a cache file ended with the
\* ValueError
C15_Witness ==
    /\ pc = "gd_raised" /\ gd_error = "ValueError: selected_digits"
    /\ calls > 1 /\ DOMAIN files # {}
    /\ selection = None /\ test_dl = None

\* C17: in a run of generate_data the global random state is seeded once,
\* with the caller's seed, and every randomized step of the run is made on
\* the state so seeded
C17_SeededOnceAtEntry ==
    component = "generate_data" =>
        /\ rng.numpy.seedings <= 1
        /\ rng.python.seedings <= 1
        /\ \A d \in draws : d.seeded_with = <<seed>> /\ d.seedings = 1

\* the concept groups of this run before any subsampling
LayoutGroups ==
    ConceptGroupMap(gd_selected_digits, config.operands.num_operands,
                    config.even_concepts)

\* the concept groups or concepts the subsampling step of this run draws from
DrawnFrom ==
    IF config.sampling_groups THEN Len(LayoutGroups) ELSE ConceptCount(LayoutGroups)

\* C10: once the subsampling step has run, (a) with rerun = False and an
\* earlier invocation of the same mode, percentage and operand count, the
\* selection is the one that invocation ended up with, read from the file
\* it left; (b) with rerun = True the selection is a fresh permutation
\* prefix and the cache file holds it
C10_CacheIdempotent ==
    selection # None =>
        /\ (~rerun /\ GenKey \in DOMAIN returned) =>
              /\ selection[1].source = "file"
              /\ selection[1].indices = returned[GenKey]
              /\ files[GenKey] = returned[GenKey]
        /\ rerun =>
              /\ selection[1].source = "permutation"
              /\ selection[1].indices \in
                    PermutationPrefixes(DrawnFrom,
                        SampledCount(DrawnFrom, config.sampling_percent))
              /\ files[GenKey] = selection[1].indices

GroupsHolding(column) ==
    {g \in 1..Len(concept_group_map) :
        \E k \in 1..Len(concept_group_map[g].concepts) :
            concept_group_map[g].concepts[k] = column}

\* C11: the concept_group_map generate_data returns partitions
\* [0, num_concepts): every column of the range is in exactly one group, once,
\* and no group holds a column outside the range
C11_GroupsPartitionColumns ==
    pc = "gd_done" =>
        /\ \A column \in 0..(num_concepts - 1) : Cardinality(GroupsHolding(column)) = 1
        /\ \A g \in 1..Len(concept_group_map) :
              /\ \A k \in 1..Len(concept_group_map[g].concepts) :
                    /\ concept_group_map[g].concepts[k] >= 0
                    /\ concept_group_map[g].concepts[k] < num_concepts
              /\ \A k, m \in 1..Len(concept_group_map[g].concepts) :
                    k # m => concept_group_map[g].concepts[k] # concept_group_map[g].concepts[m]

\* 1 + the sum over the operands of the largest digit allowed
RawSumClasses(digits) ==
    1 + SumSeq([o \in 1..Len(digits) |-> MaxOf(Range(digits[o]))], 1)

\* C23: generate_data never fails for want of a task count: on every path
\* it returns num_tasks, which is 1 in parity or threshold mode and
\* otherwise 1 + the sum over operands of the largest allowed digit, with
\* even_concepts on or off; and in raw-sum mode every task label
\* produce_addition_set gives lies in [0, num_tasks)
C23_NumTasksDefined ==
    /\ gd_error # "UnboundLocalError: n_tasks"
    /\ pc = "gd_done" =>
          n_tasks = (IF config.even_labels \/ config.threshold_labels # None
                     THEN <<1>> ELSE <<RawSumClasses(gd_selected_digits)>>)
    /\ (pc = "add_done" /\ ~even_labels /\ threshold_labels = None) =>
          \A i \in 1..Len(sum_train_labels) :
              /\ sum_train_labels[i] >= 0
              /\ sum_train_labels[i] < RawSumClasses(selected_digits)

\* C22: the num_concepts an invocation returns is the number of columns of
\* the concept tensors of the loaders it returns, and every index of the
\* returned concept_group_map is a column of those tensors, whatever earlier
\* invocations left in the cache directory
C22_WidthMatchesNumConcepts ==
    pc = "gd_done" =>
        \A dl \in Loaders :
            /\ dl[1].concept_width = num_concepts
            /\ \A g \in 1..Len(concept_group_map) :
                  \A k \in 1..Len(concept_group_map[g].concepts) :
                      /\ concept_group_map[g].concepts[k] >= 0
                      /\ concept_group_map[g].concepts[k] < dl[1].concept_width

\* the entry of the rebuilt map for the group called name, as a set
RebuiltGroup(name) ==
    {g \in 1..Len(concept_group_map) : concept_group_map[g].name = name}

\* C12: after subsampling by group every selected group is in the rebuilt map
\* with all its columns, each remapped to its rank among the selected
\* columns (so order is kept and the range [0, num_concepts) is filled), and
\* neither the selection nor the map holds anything of an unselected group
C12_GroupsNeverSplit ==
    (selection # None /\ config.sampling_groups) =>
        LET chosen == Range(selection[1].indices)
            kept == selected_concepts[1]
            columns == UNION {Range(LayoutGroups[g + 1].concepts) : g \in chosen}
            rank(column) == Cardinality({c \in columns : c < column})
        IN /\ Range(kept) = columns
           /\ Len(kept) = Cardinality(columns)
           /\ num_concepts = Cardinality(columns)
           /\ Len(concept_group_map) = Cardinality(chosen)
           /\ \A g \in chosen :
                 /\ Cardinality(RebuiltGroup(LayoutGroups[g + 1].name)) = 1
                 /\ \A r \in RebuiltGroup(LayoutGroups[g + 1].name) :
                       /\ Len(concept_group_map[r].concepts) =
                             Len(LayoutGroups[g + 1].concepts)
                       /\ \A k \in 1..Len(LayoutGroups[g + 1].concepts) :
                             concept_group_map[r].concepts[k] =
                                 rank(LayoutGroups[g + 1].concepts[k])
           /\ \A g \in 1..Len(concept_group_map) :
                 \E h \in chosen : LayoutGroups[h + 1].name = concept_group_map[g].name

\* a returned run that took the second group, of three columns, out of two
C12_Witness ==
    /\ pc = "gd_done" /\ selection # None /\ config.sampling_groups
    /\ selection[1].indices = <<1>>
    /\ Len(LayoutGroups) = 2 /\ Len(LayoutGroups[2].concepts) = 3
    /\ LayoutGroups[2].concepts[1] = 3
    /\ concept_group_map = <<[name |-> 1, concepts |-> <<0, 1, 2>>]>>

C10_Witness ==
    /\ calls = MaxCalls /\ pc = "gd_done"
    /\ selection # None /\ GenKey \in DOMAIN returned
    /\ ~rerun /\ selection[1].source = "file"

----------------------------------------------------------------------------
(* The subsampling step of generate_data in concurrent processes *)

\* bound: the processes that run generate_data on one cache directory at
\* the same time
NumProcs == 2

Procs == 1..NumProcs

\* the config the processes share: they subsample, with valid operands
RaceConfigs ==
    {c \in CacheConfigs :
        /\ c.sampling_percent # <<1, 1>>
        /\ ~DigitsLengthMismatch(c.operands, c.operands.num_operands)
        /\ ~c.weight_loss}

\* the concept groups or concepts lines 549 and 568 count
RaceTotal ==
    LET group_map == ConceptGroupMap(
                         NormalizeDigits(config.operands, config.operands.num_operands),
                         config.operands.num_operands, config.even_concepts)
    IN IF config.sampling_groups THEN Len(group_map) ELSE ConceptCount(group_map)

RaceSelections ==
    PermutationPrefixes(RaceTotal, SampledCount(RaceTotal, config.sampling_percent))

\* a file np.save has opened and not yet written
Truncated == <<>>

\* a lock taken from the cache test to the end of np.save
Unlocked_Mutex(p) ==
    \A q \in Procs \ {p} : proc_pc[q] \notin {"load", "draw", "save", "write"}

\* lines 554-560 and 573-579 take no lock: nothing holds a process back
Unlocked(p) == TRUE

\* process p may find no usable cache and go on to draw
MissEnabled(p) == Unlocked(p) /\ ~UseCache(proc_rerun[p], GenKey, files)

RaceInit ==
    /\ component = "generate_data, concurrent"
    /\ pc = "race"
    /\ config \in RaceConfigs
    /\ \/ files = EmptyFn
       \/ \E chosen \in RaceSelections : files = [k \in {GenKey} |-> chosen]
    /\ proc_pc = [p \in Procs |-> "check"]
    /\ proc_rerun \in [Procs -> BOOLEAN]
    /\ proc_selection = [p \in Procs |-> None]
    /\ GenRestIdle
    /\ SSIdle /\ AddIdle /\ UncIdle /\ EvalIdle

\* lines 554 and 573: the test finds a file to load
RaceHit(p) ==
    /\ proc_pc[p] = "check"
    /\ Unlocked(p) /\ UseCache(proc_rerun[p], GenKey, files)
    /\ proc_pc' = [proc_pc EXCEPT ![p] = "load"]
    /\ UNCHANGED <<component, pc, ssVars, addVars, uncVars, evalVars, config, files, genRest,
                   proc_rerun, proc_selection>>

\* lines 554 and 573: the test fails, by rerun or for want of a file
RaceMiss(p) ==
    /\ proc_pc[p] = "check"
    /\ MissEnabled(p)
    /\ proc_pc' = [proc_pc EXCEPT ![p] = "draw"]
    /\ UNCHANGED <<component, pc, ssVars, addVars, uncVars, evalVars, config, files, genRest,
                   proc_rerun, proc_selection>>

\* lines 555 and 574: np.load of a complete file
RaceLoad(p) ==
    /\ proc_pc[p] = "load"
    /\ files[GenKey] # Truncated
    /\ proc_selection' = [proc_selection EXCEPT ![p] = <<files[GenKey]>>]
    /\ proc_pc' = [proc_pc EXCEPT ![p] = "go_on"]
    /\ UNCHANGED <<component, pc, ssVars, addVars, uncVars, evalVars, config, files, genRest,
                   proc_rerun>>

\* lines 555 and 574: np.load of a file another process is still writing
RaceLoadRaises(p) ==
    /\ proc_pc[p] = "load"
    /\ files[GenKey] = Truncated
    /\ proc_pc' = [proc_pc EXCEPT ![p] = "raised"]
    /\ UNCHANGED <<component, pc, ssVars, addVars, uncVars, evalVars, config, files, genRest,
                   proc_rerun, proc_selection>>

\* lines 557-559 and 576-578: the process draws its own selection
RaceDraw(p) ==
    /\ proc_pc[p] = "draw"
    /\ \E chosen \in RaceSelections :
          proc_selection' = [proc_selection EXCEPT ![p] = <<chosen>>]
    /\ proc_pc' = [proc_pc EXCEPT ![p] = "save"]
    /\ UNCHANGED <<component, pc, ssVars, addVars, uncVars, evalVars, config, files, genRest,
                   proc_rerun>>

\* lines 560 and 579: np.save opens the file for writing, which empties it
RaceSaveOpen(p) ==
    /\ proc_pc[p] = "save"
    /\ files' = [k \in DOMAIN files \cup {GenKey} |->
                    IF k = GenKey THEN Truncated ELSE files[k]]
    /\ proc_pc' = [proc_pc EXCEPT ![p] = "write"]
    /\ UNCHANGED <<component, pc, ssVars, addVars, uncVars, evalVars, config, genRest,
                   proc_rerun, proc_selection>>

\* lines 560 and 579: np.save writes the selection; the process goes on
\* with the selection it drew
RaceSaveWrite(p) ==
    /\ proc_pc[p] = "write"
    /\ files' = [files EXCEPT ![GenKey] = proc_selection[p][1]]
    /\ proc_pc' = [proc_pc EXCEPT ![p] = "go_on"]
    /\ UNCHANGED <<component, pc, ssVars, addVars, uncVars, evalVars, config, genRest,
                   proc_rerun, proc_selection>>

RaceNext ==
    \/ \E p \in Procs : RaceHit(p)
    \/ \E p \in Procs : RaceMiss(p)
    \/ \E p \in Procs : RaceLoad(p)
    \/ \E p \in Procs : RaceLoadRaises(p)
    \/ \E p \in Procs : RaceDraw(p)
    \/ \E p \in Procs : RaceSaveOpen(p)
    \/ \E p \in Procs : RaceSaveWrite(p)

SpecRace == RaceInit /\ [][RaceNext]_vars

\* C18: the cache test and the write take no lock: a process at the test
\* with no file present may miss the cache also while another process is
\* between its own miss and the end of its save
C18_NoLock ==
    component = "generate_data, concurrent" =>
        \A p \in Procs :
            (proc_pc[p] = "check" /\ GenKey \notin DOMAIN files) => MissEnabled(p)

\* with no file at the start and rerun off, two processes both missed the
\* cache and saved; the first goes on with a selection that is not the one
\* left in the file
C18_Witness ==
    /\ component = "generate_data, concurrent"
    /\ \A p \in Procs : ~proc_rerun[p] /\ proc_pc[p] = "go_on"
    /\ proc_selection[1] # proc_selection[2]
    /\ files[GenKey] = proc_selection[2][1]
    /\ files[GenKey] # proc_selection[1][1]

----------------------------------------------------------------------------
(* utils.evaluate_expressions *)

\* bound: the keys of the config passed in
MaxKeys == 2

\* a value of the config: its kind, what it has been replaced by so far,
\* and for a dict its own entries.  Kinds: "number" (neither str nor dict),
\* "plain" and "plain_bad" (a string without the {{ }} frame whose format
\* succeeds / raises), "expr_ok" (a {{...}} string that formats and
\* evaluates), "expr_bad_format" and "expr_bad_eval" (a {{...}} string whose
\* format / eval raises an Exception), "expr_exit" (a {{...}} string that
\* formats and whose eval raises a BaseException that is no Exception, such
\* as SystemExit), "dict"
Leaf(kind) == [kind |-> kind, value |-> "raw", nested |-> <<>>]

LeafKinds == {"number", "plain", "plain_bad", "expr_ok", "expr_bad_format",
              "expr_bad_eval", "expr_exit"}

NestedLeafKinds == {"plain", "expr_ok", "expr_bad_eval"}

NestedDicts ==
    {<<Leaf(a)>> : a \in NestedLeafKinds}
        \cup {<<Leaf(a), Leaf(b)>> : a \in NestedLeafKinds, b \in NestedLeafKinds}

Entries ==
    {Leaf(k) : k \in LeafKinds}
        \cup {[kind |-> "dict", value |-> "raw", nested |-> d] : d \in NestedDicts}

Configs == UNION {[1..n -> Entries] : n \in 1..MaxKeys}

\* line 215: evaluate_expressions(val, parent_config=parent_config), soft
\* left at its default
NestedSoft(flag) == FALSE

EvalInit ==
    /\ component = "evaluate_expressions"
    /\ pc = "ev_loop"
    /\ eval_config \in Configs
    /\ soft \in BOOLEAN
    /\ frames = <<[pos |-> 1, soft |-> soft]>>
    /\ eval_error = ""
    /\ SSIdle /\ AddIdle /\ UncIdle /\ GenIdle

\* the dict the innermost call iterates over, and the value its loop is at
CurrentDict ==
    IF Len(frames) = 1 THEN eval_config ELSE eval_config[frames[1].pos].nested

Frame == frames[Len(frames)]

AtValue == pc = "ev_loop" /\ Frame.pos <= Len(CurrentDict)

Current == CurrentDict[Frame.pos]

\* config[key] = ... in the innermost call
Assigned(value) ==
    IF Len(frames) = 1
    THEN [eval_config EXCEPT ![frames[1].pos].value = value]
    ELSE [eval_config EXCEPT ![frames[1].pos].nested[frames[2].pos].value = value]

Advanced == [frames EXCEPT ![Len(frames)].pos = @ + 1]

\* line 197 on a value that is neither a string nor a dict
EvalSkip ==
    /\ AtValue /\ Current.kind = "number"
    /\ frames' = Advanced
    /\ UNCHANGED <<component, pc, ssVars, addVars, uncVars, genVars, raceVars,
                   eval_config, soft, eval_error>>

\* line 212: a string without the {{ }} frame is formatted
EvalPlain ==
    /\ AtValue /\ Current.kind = "plain"
    /\ eval_config' = Assigned("formatted")
    /\ frames' = Advanced
    /\ UNCHANGED <<component, pc, ssVars, addVars, uncVars, genVars, raceVars,
                   soft, eval_error>>

\* line 212 when format raises: outside the try, whatever soft is
EvalPlainRaises ==
    /\ AtValue /\ Current.kind = "plain_bad"
    /\ eval_error' = "plain string"
    /\ pc' = "ev_raised"
    /\ UNCHANGED <<component, ssVars, addVars, uncVars, genVars, raceVars,
                   eval_config, soft, frames>>

\* lines 201-203: a {{...}} string is formatted, then evaluated
EvalExpression ==
    /\ AtValue /\ Current.kind = "expr_ok"
    /\ eval_config' = Assigned("evaluated")
    /\ frames' = Advanced
    /\ UNCHANGED <<component, pc, ssVars, addVars, uncVars, genVars, raceVars,
                   soft, eval_error>>

\* lines 201-210 when format or eval raises an Exception: swallowed if this
\* call's soft is set, raised again otherwise; a value whose eval failed
\* stays formatted
EvalExpressionFails ==
    /\ AtValue /\ Current.kind \in {"expr_bad_format", "expr_bad_eval"}
    /\ eval_config' = IF Current.kind = "expr_bad_eval" THEN Assigned("formatted")
                      ELSE eval_config
    /\ IF Frame.soft
       THEN frames' = Advanced /\ UNCHANGED <<pc, eval_error>>
       ELSE /\ pc' = "ev_raised" /\ eval_error' = "expression"
            /\ UNCHANGED frames
    /\ UNCHANGED <<component, ssVars, addVars, uncVars, genVars, raceVars, soft>>

\* lines 201-204 when eval raises what `except Exception` does not catch:
\* it leaves the call whatever soft is, the value staying formatted
EvalExpressionExits ==
    /\ AtValue /\ Current.kind = "expr_exit"
    /\ eval_config' = Assigned("formatted")
    /\ pc' = "ev_raised"
    /\ eval_error' = "base exception"
    /\ UNCHANGED <<component, ssVars, addVars, uncVars, genVars, raceVars,
                   soft, frames>>

\* lines 213-215: the recursive call on a nested dict
EvalEnter ==
    /\ AtValue /\ Current.kind = "dict"
    /\ frames' = Append(frames, [pos |-> 1, soft |-> NestedSoft(Frame.soft)])
    /\ UNCHANGED <<component, pc, ssVars, addVars, uncVars, genVars, raceVars,
                   eval_config, soft, eval_error>>

\* the loop of line 197 ends: the call returns, to its caller's loop or to
\* the caller of evaluate_expressions
EvalLeave ==
    /\ pc = "ev_loop" /\ Frame.pos > Len(CurrentDict)
    /\ IF Len(frames) = 1
       THEN pc' = "ev_returned" /\ UNCHANGED frames
       ELSE /\ frames' = [SubSeq(frames, 1, Len(frames) - 1)
                             EXCEPT ![Len(frames) - 1].pos = @ + 1]
            /\ UNCHANGED pc
    /\ UNCHANGED <<component, ssVars, addVars, uncVars, genVars, raceVars,
                   eval_config, soft, eval_error>>

EvalNext ==
    \/ EvalSkip
    \/ EvalPlain
    \/ EvalPlainRaises
    \/ EvalExpression
    \/ EvalExpressionFails
    \/ EvalExpressionExits
    \/ EvalEnter
    \/ EvalLeave

SpecEval == EvalInit /\ [][EvalNext]_vars

FailingExpression(entry) == entry.kind \in {"expr_bad_format", "expr_bad_eval"}

\* the config holds a failing {{...}} value, at the top level or in a
\* nested dict, and no plain string that fails
HoldsFailingExpression ==
    /\ \E k \in 1..Len(eval_config) :
          \/ FailingExpression(eval_config[k])
          \/ \E m \in 1..Len(eval_config[k].nested) :
                FailingExpression(eval_config[k].nested[m])
    /\ \A k \in 1..Len(eval_config) : eval_config[k].kind # "plain_bad"

\* C20: called with soft=True, evaluate_expressions raises for no failing
\* {{...}} value, at the top level or in a nested dict; called with
\* soft=False it does not return normally from a config that holds one
C20_SoftSwallowsAll ==
    component = "evaluate_expressions" =>
        /\ (soft /\ pc = "ev_raised") => eval_error # "expression"
        /\ (~soft /\ HoldsFailingExpression) => pc # "ev_returned"

----------------------------------------------------------------------------

Init == SSInit \/ AddInit \/ UncInit \/ GenInit \/ RaceInit \/ EvalInit

Next == SSNext \/ AddNext \/ UncNext \/ GenNext \/ RaceNext \/ EvalNext

Spec == Init /\ [][Next]_vars

====
